---- MODULE Spec2Model ----
(***************************************************************************)
(* A model of the policy question-answering service: the policy checker    *)
(* (agents/policy_checker_agent.py), the chunker (agents/chunker_agent.py)  *)
(* and the text they work on.                                               *)
(*                                                                          *)
(* Text is a sequence of one-character strings, so that substring search,   *)
(* word-boundary matching, lower-casing, splitting and stripping are        *)
(* computed character by character, as Python computes them.  Scores are    *)
(* kept in hundredths (0.15 is 15, 1.0 is 100): every penalty is a multiple *)
(* of 0.05, so round(x, 2) of the float sum is the exact sum.               *)
(***************************************************************************)
EXTENDS Integers, Sequences, FiniteSets, TLC

VARIABLES
    use_llm,        \* PolicyCheckerAgent.use_llm, fixed at construction
    p_pc,           \* "idle" before a check_policy call, "done" after it
    p_answer,       \* check_policy argument: answer
    p_chunks,       \* check_policy argument: retrieved_chunks
    p_query,        \* check_policy argument: query
    llm_outcome,    \* what model.generate_content did in this call
    llm_called,     \* TRUE iff the call reached model.generate_content
    report,         \* the dictionary check_policy returned
    c_pc,           \* ChunkerAgent: "new", "idle", or in chunk_document "loop", "done"
    chunk_size,     \* ChunkerAgent.chunk_size
    chunk_overlap,  \* ChunkerAgent.chunk_overlap
    document_data,  \* chunk_document argument
    page_idx,       \* chunk_document: number of pages already processed
    chunk_id,       \* chunk_document: the local counter chunk_id
    chunks,         \* chunk_document: the local list chunks
    db_pc,          \* VectorDBAgent: "new" before construction, "open" after
    collection,     \* the entries of the Chroma collection, in insertion order
    q_pc,           \* where a retrieval or a /query request is
    q_args,         \* retrieve arguments: query, top_k and the two filters
    store_call,     \* the n_results and where that retrieve handed to the store
    store_chunks,   \* what VectorDBAgent.query returned to retrieve
    q_chunks,       \* what retrieve returned
    q_context,      \* what format_context returned
    q_citations,    \* what get_citations returned
    q_last,         \* chunks and outputs of the previous format_context, get_citations
    q_invoked,      \* the agent calls the /query request has made, in order
    answer_result,  \* what generate_answer returned
    followup_questions, \* what generate_followup_questions returned
    q_response,     \* the response of the /query request
    q_logged,       \* the line the /query request appended to the audit log
    clock,          \* datetime.now(), in seconds
    upload_dir,     \* the files of settings.upload_dir, by name
    upload_jobs,    \* the dictionary upload_jobs
    background_tasks, \* the process_document tasks added and not yet run
    uploads,        \* history: the accepted uploads, in order
    processed,      \* history: what each task did, in the order they ran
    u_request,      \* history: the filename of the last /upload request
    u_response,     \* the response of the last /upload request
    deleted,        \* history: the document ids deleted, and not uploaded since
    statistics,     \* the last get_chunk_statistics call: its chunks and result
    ingested        \* the last IngestionAgent.process_document call and its outcome

policy_vars == <<use_llm, p_pc, p_answer, p_chunks, p_query, llm_outcome, llm_called, report>>
chunker_vars == <<c_pc, chunk_size, chunk_overlap, document_data, page_idx, chunk_id, chunks>>
retriever_vars == <<db_pc, collection, q_pc, q_args, store_call, store_chunks, q_chunks,
                    q_context, q_citations, q_last>>
retrieval_vars == <<q_pc, q_args, store_call, store_chunks, q_chunks, q_context,
                    q_citations, q_last>>
query_vars == <<q_invoked, answer_result, followup_questions, q_response, q_logged>>
upload_vars == <<clock, upload_dir, upload_jobs, background_tasks, uploads, processed,
                 u_request, u_response, deleted>>
call_vars == <<statistics, ingested>>
vars == <<policy_vars, chunker_vars, retriever_vars, query_vars, upload_vars, call_vars>>
other_than_policy == <<chunker_vars, retriever_vars, query_vars, upload_vars, call_vars>>
other_than_chunker == <<policy_vars, retriever_vars, query_vars, upload_vars, call_vars>>
other_than_retriever == <<policy_vars, chunker_vars, query_vars, upload_vars, call_vars>>

(***************************************************************************)
(* Python strings                                                          *)
(***************************************************************************)
UpperCase == <<"A","B","C","D","E","F","G","H","I","J","K","L","M",
               "N","O","P","Q","R","S","T","U","V","W","X","Y","Z">>
LowerCase == <<"a","b","c","d","e","f","g","h","i","j","k","l","m",
               "n","o","p","q","r","s","t","u","v","w","x","y","z">>
Digits == <<"0","1","2","3","4","5","6","7","8","9">>

Range(s) == {s[i] : i \in DOMAIN s}

\* The characters of the texts are those of Latin-1 (U+0000 to U+00FF):
\* a string of the module holds no others.  The letters beyond ASCII that
\* str.lower() changes, and what it makes of them:
Latin1Upper == <<"À","Á","Â","Ã","Ä","Å","Æ","Ç","È","É","Ê","Ë","Ì","Í","Î","Ï","Ð",
                "Ñ","Ò","Ó","Ô","Õ","Ö","Ø","Ù","Ú","Û","Ü","Ý","Þ">>
Latin1Lower == <<"à","á","â","ã","ä","å","æ","ç","è","é","ê","ë","ì","í","î","ï","ð",
                "ñ","ò","ó","ô","õ","ö","ø","ù","ú","û","ü","ý","þ">>

\* the other characters beyond ASCII that \w matches (str patterns match
\* every character that is alphanumeric in Unicode)
Latin1Word == {"ª","²","³","µ","¹","º","¼","½","¾","ß","ÿ"}

\* the characters the regular expression \w matches
WordChars ==
    Range(UpperCase) \cup Range(LowerCase) \cup Range(Digits) \cup {"_"}
    \cup Range(Latin1Upper) \cup Range(Latin1Lower) \cup Latin1Word

\* the characters str.strip(), str.split() and float() treat as whitespace:
\* tab, line feed, vertical tab, form feed, carriage return, U+001C to
\* U+001F, the space, U+0085 and the no-break space
Whitespace == {"\t","\n","","\f","\r","","","",""," ",""," "}

ToLower ==
    [c \in Range(UpperCase) \cup Range(Latin1Upper) |->
        IF c \in Range(UpperCase)
        THEN LowerCase[CHOOSE i \in DOMAIN UpperCase : UpperCase[i] = c]
        ELSE Latin1Lower[CHOOSE i \in DOMAIN Latin1Upper : Latin1Upper[i] = c]]

\* str.lower()
lower(s) == [i \in 1..Len(s) |-> IF s[i] \in DOMAIN ToLower THEN ToLower[s[i]] ELSE s[i]]

\* s[i:i+len(sub)] == sub, for a 1-based position i
MatchAt(sub, s, i) ==
    /\ i + Len(sub) - 1 <= Len(s)
    /\ \A j \in 1..Len(sub) : s[i + j - 1] = sub[j]

\* sub in s
Contains(sub, s) == \E i \in 1..(Len(s) - Len(sub) + 1) : MatchAt(sub, s, i)

\* len(re.findall(r'\b' + word + r'\b', s)): word starts and ends with a word
\* character, so each \b asks for a non-word character (or the end of the text)
\* on the other side, and two matches never overlap
WordMatchAt(word, s, i) ==
    /\ MatchAt(word, s, i)
    /\ (i = 1 \/ s[i - 1] \notin WordChars)
    /\ (i + Len(word) > Len(s) \/ s[i + Len(word)] \notin WordChars)

re_findall_count(word, s) ==
    Cardinality({i \in 1..Len(s) : WordMatchAt(word, s, i)})

\* s without the characters of space at its two ends
strip_of(s, space) ==
    LET keep == {i \in 1..Len(s) : s[i] \notin space}
    IN  IF keep = {} THEN <<>>
        ELSE LET lo == CHOOSE i \in keep : \A j \in keep : i <= j
                 hi == CHOOSE i \in keep : \A j \in keep : j <= i
             IN  SubSeq(s, lo, hi)

\* str.strip()
strip(s) == strip_of(s, Whitespace)

\* the positions of the character sep in s from i on, ascending
PositionsFrom(sep, s, i) ==
    LET at == {j \in i..Len(s) : s[j] = sep}
    IN  [k \in 1..Cardinality(at) |->
            CHOOSE j \in at : Cardinality({h \in at : h < j}) = k - 1]

\* s.split(sep) for a one-character sep
split(s, sep) ==
    LET pos == PositionsFrom(sep, s, 1)
        n == Len(pos)
    IN  [k \in 1..(n + 1) |->
            SubSeq(s, IF k = 1 THEN 1 ELSE pos[k - 1] + 1,
                      IF k = n + 1 THEN Len(s) ELSE pos[k] - 1)]

\* s.split(sep, 1)
split1(s, sep) ==
    LET pos == PositionsFrom(sep, s, 1)
    IN  IF pos = <<>> THEN <<s>>
        ELSE <<SubSeq(s, 1, pos[1] - 1), SubSeq(s, pos[1] + 1, Len(s))>>

RECURSIVE JoinWith(_, _)
\* sep.join(parts)
JoinWith(parts, sep) ==
    IF parts = <<>> THEN <<>>
    ELSE IF Len(parts) = 1 THEN parts[1]
    ELSE parts[1] \o sep \o JoinWith(Tail(parts), sep)

DigitValue(c) == (CHOOSE i \in 1..10 : Digits[i] = c) - 1

RECURSIVE DigitsValue(_)
DigitsValue(s) ==
    IF s = <<>> THEN 0 ELSE 10 * DigitsValue(SubSeq(s, 1, Len(s) - 1)) + DigitValue(s[Len(s)])

\* digits with single underscores between them ("10", "1_000")
IsDigitGroups(s) ==
    /\ s # <<>>
    /\ \A i \in 1..Len(s) : s[i] \in Range(Digits) \cup {"_"}
    /\ s[1] # "_" /\ s[Len(s)] # "_"
    /\ \A i \in 1..(Len(s) - 1) : ~(s[i] = "_" /\ s[i + 1] = "_")

WithoutUnderscores(s) == SelectSeq(s, LAMBDA c : c # "_")

\* s from its first character that is not "0" on
WithoutLeadingZeros(s) ==
    LET keep == {i \in 1..Len(s) : s[i] # "0"}
    IN  IF keep = {} THEN <<>>
        ELSE SubSeq(s, CHOOSE i \in keep : \A j \in keep : i <= j, Len(s))

\* s up to its last character that is not "0"
WithoutTrailingZeros(s) ==
    LET keep == {i \in 1..Len(s) : s[i] # "0"}
    IN  IF keep = {} THEN <<>>
        ELSE SubSeq(s, 1, CHOOSE i \in keep : \A j \in keep : j <= i)

RECURSIVE Pow10(_)
Pow10(k) == IF k = 0 THEN 1 ELSE 10 * Pow10(k - 1)

\* the i-th digit after the point of 0.a
FractionDigit(a, i) == IF i <= Len(a) THEN DigitValue(a[i]) ELSE 0

\* 0.a < 0.b for two sequences of digits
FractionLess(a, b) ==
    LET differ == {i \in 1..(Len(a) + Len(b)) : FractionDigit(a, i) # FractionDigit(b, i)}
    IN  /\ differ # {}
        /\ \E i \in differ : /\ \A j \in differ : i <= j
                              /\ FractionDigit(a, i) < FractionDigit(b, i)

\* the first position of e or E in s, 0 when there is none
ExponentMark(s) ==
    LET at == {i \in 1..Len(s) : s[i] \in {"e", "E"}}
    IN  IF at = {} THEN 0 ELSE CHOOSE i \in at : \A j \in at : i <= j

\* the digits of 2^1024 - 2^970 = 0.17976... * 10^309, halfway from the
\* largest double to 2^1024: float is inf from this number on
OverflowDigits ==
    <<"1","7","9","7","6","9","3","1","3","4","8","6","2","3","1","5","8","0",
      "7","9","3","7","2","8","9","7","1","4","0","5","3","0","3","4","1","5",
      "0","7","9","9","3","4","1","3","2","7","1","0","0","3","7","8","2","6",
      "9","3","6","1","7","3","7","7","8","9","8","0","4","4","4","9","6","8",
      "2","9","2","7","6","4","7","5","0","9","4","6","6","4","9","0","1","7",
      "9","7","7","5","8","7","2","0","7","0","9","6","3","3","0","2","8","6",
      "4","1","6","6","9","2","8","8","7","9","1","0","9","4","6","5","5","5",
      "5","4","7","8","5","1","9","4","0","4","0","2","6","3","0","6","5","7",
      "4","8","8","6","7","1","5","0","5","8","2","0","6","8","1","9","0","8",
      "9","0","2","0","0","0","7","0","8","3","8","3","6","7","6","2","7","3",
      "8","5","4","8","4","5","8","1","7","7","1","1","5","3","1","7","6","4",
      "4","7","5","7","3","0","2","7","0","0","6","9","8","5","5","5","7","1",
      "3","6","6","9","5","9","6","2","2","8","4","2","9","1","4","8","1","9",
      "8","6","0","8","3","4","9","3","6","4","7","5","2","9","2","7","1","9",
      "0","7","4","1","6","8","4","4","4","3","6","5","5","1","0","7","0","4",
      "3","4","2","7","1","1","5","5","9","6","9","9","5","0","8","0","9","3",
      "0","4","2","8","8","0","1","7","7","9","0","4","1","7","4","4","9","7",
      "7","9","2">>

\* the digits of 2^-1075 = 0.24703... * 10^-323, half the smallest double:
\* float is 0.0 up to this number
UnderflowDigits ==
    <<"2","4","7","0","3","2","8","2","2","9","2","0","6","2","3","2","7","2",
      "0","8","8","2","8","4","3","9","6","4","3","4","1","1","0","6","8","6",
      "1","8","2","5","2","9","9","0","1","3","0","7","1","6","2","3","8","2",
      "2","1","2","7","9","2","8","4","1","2","5","0","3","3","7","7","5","3",
      "6","3","5","1","0","4","3","7","5","9","3","2","6","4","9","9","1","8",
      "1","8","0","8","1","7","9","9","6","1","8","9","8","9","8","2","8","2",
      "3","4","7","7","2","2","8","5","8","8","6","5","4","6","3","3","2","8",
      "3","5","5","1","7","7","9","6","9","8","9","8","1","9","9","3","8","7",
      "3","9","8","0","0","5","3","9","0","9","3","9","0","6","3","1","5","0",
      "3","5","6","5","9","5","1","5","5","7","0","2","2","6","3","9","2","2",
      "9","0","8","5","8","3","9","2","4","4","9","1","0","5","1","8","4","4",
      "3","5","9","3","1","8","0","2","8","4","9","9","3","6","5","3","6","1",
      "5","2","5","0","0","3","1","9","3","7","0","4","5","7","6","7","8","2",
      "4","9","2","1","9","3","6","5","6","2","3","6","6","9","8","6","3","6",
      "5","8","4","8","0","7","5","7","0","0","1","5","8","5","7","6","9","2",
      "6","9","9","0","3","7","0","6","3","1","1","9","2","8","2","7","9","5",
      "5","8","5","5","1","3","3","2","9","2","7","8","3","4","3","3","8","4",
      "0","9","3","5","1","9","7","8","0","1","5","5","3","1","2","4","6","5",
      "9","7","2","6","3","5","7","9","5","7","4","6","2","2","7","6","6","4",
      "6","5","2","7","2","8","2","7","2","2","0","0","5","6","3","7","4","0",
      "0","6","4","8","5","4","9","9","9","7","7","0","9","6","5","9","9","4",
      "7","0","4","5","4","0","2","0","8","2","8","1","6","6","2","2","6","2",
      "3","7","8","5","7","3","9","3","4","5","0","7","3","6","3","3","9","0",
      "0","7","9","6","7","7","6","1","9","3","0","5","7","7","5","0","6","7",
      "4","0","1","7","6","3","2","4","6","7","3","6","0","0","9","6","8","9",
      "5","1","3","4","0","5","3","5","5","3","7","4","5","8","5","1","6","6",
      "6","1","1","3","4","2","2","3","7","6","6","6","7","8","6","0","4","1",
      "6","2","1","5","9","6","8","0","4","6","1","9","1","4","4","6","7","2",
      "9","1","8","4","0","3","0","0","5","3","0","0","5","7","5","3","0","8",
      "4","9","0","4","8","7","6","5","3","9","1","7","1","1","3","8","6","5",
      "9","1","6","4","6","2","3","9","5","2","4","9","1","2","6","2","3","6",
      "5","3","8","8","1","8","7","9","6","3","6","2","3","9","3","7","3","2",
      "8","0","4","2","3","8","9","1","0","1","8","6","7","2","3","4","8","4",
      "9","7","6","6","8","2","3","5","0","8","9","8","6","3","3","8","8","5",
      "8","7","9","2","5","6","2","8","3","0","2","7","5","5","9","9","5","6",
      "5","7","5","2","4","4","5","5","5","0","7","2","5","5","1","8","9","3",
      "1","3","6","9","0","8","3","6","2","5","4","7","7","9","1","8","6","9",
      "4","8","6","6","7","9","9","4","9","6","8","3","2","4","0","4","9","7",
      "0","5","8","2","1","0","2","8","5","1","3","1","8","5","4","5","1","3",
      "9","6","2","1","3","8","3","7","7","2","2","8","2","6","1","4","5","4",
      "3","7","6","9","3","4","1","2","5","3","2","0","9","8","5","9","1","3",
      "2","7","6","6","7","2","3","6","3","2","8","1","2","5">>

\* the number d * 10^k, d a sequence of digits without a zero at either
\* end, as float returns it: an integer of hundredths where the number is
\* a multiple of 0.01 below 10^7; otherwise the digits and the exponent;
\* "inf" from OverflowDigits on and 0 up to UnderflowDigits.  The number is
\* kept exact: the float Python holds is the double nearest to it.
decimal_scaled(negative, d, k) ==
    IF d = <<>> THEN 0
    ELSE IF Len(d) + k > 309 \/ (Len(d) + k = 309 /\ ~FractionLess(d, OverflowDigits))
    THEN IF negative THEN "-inf" ELSE "inf"
    ELSE IF Len(d) + k < -323 \/ (Len(d) + k = -323 /\ ~FractionLess(UnderflowDigits, d))
    THEN 0
    ELSE IF k >= -2 /\ Len(d) + k <= 7
    THEN (IF negative THEN -1 ELSE 1) * DigitsValue(d) * Pow10(k + 2)
    ELSE [negative |-> negative, digits |-> d, exponent |-> k]

\* the same for digits d1 that may end in zeros
decimal_trimmed(negative, d1, d, k) == decimal_scaled(negative, d, k + (Len(d1) - Len(d)))

\* the number of the digits, fraction_len of them after the point, times 10^e
DecimalValue(negative, digits, fraction_len, e) ==
    decimal_trimmed(negative, WithoutLeadingZeros(digits),
                    WithoutTrailingZeros(WithoutLeadingZeros(digits)), e - fraction_len)

\* the exponent the digits exp_text (without leading zeros) stand for.  Up to
\* nine digits the value is exact; for ten digits or more the interpreter
\* takes 1100000000, more than the 10^9 digits a literal may have, so that
\* float is inf or 0.0 for every such exponent unless the digits are all zero
exponent_of(exp_negative, exp_text) ==
    (IF exp_negative THEN -1 ELSE 1)
    * (IF Len(exp_text) > 9 THEN 1100000000 ELSE DigitsValue(exp_text))

\* the digits float counts of a literal: those of the integer part ip from
\* its first digit that is not 0, and all those of the fraction fp
counted_digits(ip, fp) == Len(WithoutLeadingZeros(ip)) + Len(fp)

\* float of the integer part ip, the fraction fp and the exponent (sign and
\* digits), each checked: ValueError unless there are digits before or
\* after the point, and after the e when there is one, and when the literal
\* has more than 10^9 counted digits
float_parts(negative, one_point, ip, fp, has_exponent, exp_negative, exp_digits) ==
    IF /\ one_point
       /\ ip # <<>> \/ fp # <<>>
       /\ ip = <<>> \/ IsDigitGroups(ip)
       /\ fp = <<>> \/ IsDigitGroups(fp)
       /\ ~has_exponent \/ IsDigitGroups(exp_digits)
       /\ counted_digits(WithoutUnderscores(ip), WithoutUnderscores(fp)) <= 1000000000
    THEN [ok |-> TRUE,
          value |-> DecimalValue(negative,
                        WithoutUnderscores(ip) \o WithoutUnderscores(fp),
                        Len(WithoutUnderscores(fp)),
                        exponent_of(exp_negative,
                                    WithoutLeadingZeros(WithoutUnderscores(exp_digits))))]
    ELSE [ok |-> FALSE]

\* float of the mantissa, split at its points, and what follows the e
float_split(negative, parts, has_exponent, after) ==
    float_parts(negative, Len(parts) <= 2, parts[1],
                IF Len(parts) = 2 THEN parts[2] ELSE <<>>,
                has_exponent, after # <<>> /\ after[1] = "-",
                IF after # <<>> /\ after[1] \in {"+", "-"} THEN Tail(after) ELSE after)

\* float of a decimal literal u without sign, m the position of its e (0: none)
float_literal(negative, u, m) ==
    float_split(negative, split(IF m = 0 THEN u ELSE SubSeq(u, 1, m - 1), "."),
                m # 0, IF m = 0 THEN <<>> ELSE SubSeq(u, m + 1, Len(u)))

\* float of a text u without whitespace and sign: inf, infinity or nan in
\* any case, or a decimal literal
float_unsigned(negative, u, u_lower) ==
    IF u_lower \in {<<"i","n","f">>, <<"i","n","f","i","n","i","t","y">>}
    THEN [ok |-> TRUE, value |-> IF negative THEN "-inf" ELSE "inf"]
    ELSE IF u_lower = <<"n","a","n">> THEN [ok |-> TRUE, value |-> "nan"]
    ELSE float_literal(negative, u, ExponentMark(u))

\* float of a text t without whitespace at its ends: a sign may lead
float_stripped(t, u) == float_unsigned(t # <<>> /\ t[1] = "-", u, lower(u))

\* float of a text t without whitespace at its ends, with or without sign
float_of(t) == float_stripped(t, IF t # <<>> /\ t[1] \in {"+", "-"} THEN Tail(t) ELSE t)

\* float(s.strip()), as line 232 calls it: ok is FALSE where float raises
\* ValueError ("high", "[0.9]", "").  str.strip() takes the whitespace off
\* the ends; float would itself strip whitespace, though not U+001C to
\* U+001F, which it refuses (none is left at the ends here); a sign may
\* lead; then come inf, infinity or nan in any case, or digits with at most
\* one point and an optional exponent, single underscores allowed between
\* digits, 10^9 digits at most.
float(s) == float_of(strip(s))

(***************************************************************************)
(* PolicyCheckerAgent                                                      *)
(***************************************************************************)
\* self.modal_verbs, in insertion order
modal_verbs == <<
    [modal |-> <<"m","u","s","t">>, certainty |-> "high_certainty"],
    [modal |-> <<"s","h","a","l","l">>, certainty |-> "high_certainty"],
    [modal |-> <<"w","i","l","l">>, certainty |-> "high_certainty"],
    [modal |-> <<"r","e","q","u","i","r","e","d">>, certainty |-> "high_certainty"],
    [modal |-> <<"m","a","n","d","a","t","o","r","y">>, certainty |-> "high_certainty"],
    [modal |-> <<"m","a","y">>, certainty |-> "low_certainty"],
    [modal |-> <<"m","i","g","h","t">>, certainty |-> "low_certainty"],
    [modal |-> <<"c","o","u","l","d">>, certainty |-> "low_certainty"],
    [modal |-> <<"s","h","o","u","l","d">>, certainty |-> "medium_certainty"],
    [modal |-> <<"r","e","c","o","m","m","e","n","d","e","d">>, certainty |-> "medium_certainty"] >>

\* self.legal_indicators
legal_indicators == <<
    <<"l","e","g","a","l"," ","a","c","t","i","o","n">>,
    <<"l","a","w","s","u","i","t">>,
    <<"s","u","e">>,
    <<"a","t","t","o","r","n","e","y">>,
    <<"l","a","w","y","e","r">>,
    <<"l","e","g","a","l"," ","c","o","u","n","s","e","l">>,
    <<"c","o","u","r","t">>,
    <<"l","i","t","i","g","a","t","i","o","n">> >>

\* the local list ambiguous_phrases of _check_ambiguity
ambiguous_phrases == <<
    <<"i","t"," ","d","e","p","e","n","d","s">>,
    <<"m","a","y"," ","o","r"," ","m","a","y"," ","n","o","t">>,
    <<"u","n","c","l","e","a","r">>,
    <<"a","m","b","i","g","u","o","u","s">>,
    <<"n","o","t"," ","s","p","e","c","i","f","i","e","d">>,
    <<"c","o","n","s","u","l","t">>,
    <<"c","o","n","t","a","c","t">>,
    <<"c","h","e","c","k"," ","w","i","t","h">> >>

\* a wrong _check_ambiguity, counting every occurrence of a phrase
RECURSIVE OccurrencesFrom(_, _)
OccurrencesFrom(k, text) ==
    IF k > Len(ambiguous_phrases) THEN 0
    ELSE Cardinality({i \in 1..Len(text) : MatchAt(ambiguous_phrases[k], text, i)})
         + OccurrencesFrom(k + 1, text)

check_ambiguity_per_occurrence(answer) ==
    LET answer_lower == lower(answer)
        found_phrases == SelectSeq(ambiguous_phrases,
                                   LAMBDA phrase : Contains(lower(phrase), answer_lower))
    IN  [has_ambiguity |-> Len(found_phrases) > 0,
         ambiguous_phrases |-> found_phrases,
         count |-> OccurrencesFrom(1, answer_lower)]

\* _check_ambiguity: the loop appends each phrase found, once, in list order
check_ambiguity(answer) ==
    LET answer_lower == lower(answer)
        found_phrases == SelectSeq(ambiguous_phrases,
                                   LAMBDA phrase : Contains(lower(phrase), answer_lower))
    IN  [has_ambiguity |-> Len(found_phrases) > 0,
         ambiguous_phrases |-> found_phrases,
         count |-> Len(found_phrases)]

\* a wrong overall_certainty, letting a low-tier word override a high-tier one
overall_certainty_low_first(found_modals) ==
    IF DOMAIN found_modals = {} THEN "neutral"
    ELSE LET certainties == {found_modals[m].certainty : m \in DOMAIN found_modals}
         IN  IF "low_certainty" \in certainties THEN "low"
             ELSE IF "high_certainty" \in certainties THEN "high"
             ELSE "medium"

\* the branch of _analyze_modal_verbs that derives overall_certainty
overall_certainty_of(found_modals) ==
    IF DOMAIN found_modals = {} THEN "neutral"
    ELSE LET certainties == {found_modals[m].certainty : m \in DOMAIN found_modals}
         IN  IF "high_certainty" \in certainties THEN "high"
             ELSE IF "low_certainty" \in certainties THEN "low"
             ELSE "medium"

\* _analyze_modal_verbs: found_modals is keyed by the modals with count > 0
analyze_modal_verbs(answer) ==
    LET answer_lower == lower(answer)
        counted == [k \in DOMAIN modal_verbs |->
                       re_findall_count(modal_verbs[k].modal, answer_lower)]
        hit == {k \in DOMAIN modal_verbs : counted[k] > 0}
        found_modals == [m \in {modal_verbs[k].modal : k \in hit} |->
                            LET k == CHOOSE k \in hit : modal_verbs[k].modal = m
                            IN  [count |-> counted[k],
                                 certainty |-> modal_verbs[k].certainty]]
    IN  [modal_verbs |-> found_modals,
         overall_certainty |-> overall_certainty_of(found_modals)]

\* a wrong _check_legal_advice, flagging legal terms of the query as well
check_legal_advice_query_too(answer, query) ==
    LET answer_lower == lower(answer)
        query_lower == lower(query)
        legal_terms_in_answer == SelectSeq(legal_indicators,
                                           LAMBDA term : Contains(term, answer_lower))
        legal_terms_in_query == SelectSeq(legal_indicators,
                                          LAMBDA term : Contains(term, query_lower))
        is_legal_advice == Len(legal_terms_in_answer) + Len(legal_terms_in_query) > 0
    IN  [is_legal_advice |-> is_legal_advice,
         legal_terms_in_answer |-> legal_terms_in_answer,
         legal_terms_in_query |-> legal_terms_in_query,
         recommendation |-> IF is_legal_advice THEN "Consult legal services office"
                            ELSE "None"]

\* _check_legal_advice: recommendation is None (here "None") unless flagged
check_legal_advice(answer, query) ==
    LET answer_lower == lower(answer)
        query_lower == lower(query)
        legal_terms_in_answer == SelectSeq(legal_indicators,
                                           LAMBDA term : Contains(term, answer_lower))
        legal_terms_in_query == SelectSeq(legal_indicators,
                                          LAMBDA term : Contains(term, query_lower))
        is_legal_advice == Len(legal_terms_in_answer) > 0
    IN  [is_legal_advice |-> is_legal_advice,
         legal_terms_in_answer |-> legal_terms_in_answer,
         legal_terms_in_query |-> legal_terms_in_query,
         recommendation |-> IF is_legal_advice THEN "Consult legal services office"
                            ELSE "None"]

\* a wrong _check_contradictions_heuristic, counting chunks instead of
\* distinct filenames
check_contradictions_heuristic_per_chunk(chunk_list) ==
    IF Len(chunk_list) < 2
    THEN [has_contradictions |-> FALSE, confidence |-> 100]
    ELSE LET sources == {chunk_list[i].metadata.filename : i \in DOMAIN chunk_list}
         IN  [has_contradictions |-> FALSE,
              multiple_sources |-> Len(chunk_list) > 1,
              source_count |-> Len(chunk_list),
              sources |-> sources,
              confidence |-> IF Len(chunk_list) > 1 THEN 80 ELSE 100]

\* _check_contradictions_heuristic; 'sources' is list(set(...)), whose order
\* Python does not fix, kept as the set
check_contradictions_heuristic(chunk_list) ==
    IF Len(chunk_list) < 2
    THEN [has_contradictions |-> FALSE, confidence |-> 100]
    ELSE LET sources == {chunk_list[i].metadata.filename : i \in DOMAIN chunk_list}
         IN  [has_contradictions |-> FALSE,
              multiple_sources |-> Cardinality(sources) > 1,
              source_count |-> Cardinality(sources),
              sources |-> sources,
              confidence |-> IF Cardinality(sources) > 1 THEN 80 ELSE 100]

\* the parse of response.text in _check_contradictions_llm; lines is
\* result_text.split('\n'); raised is TRUE where the code raises (IndexError
\* of [1] on a line without ':', ValueError of float)
parse_llm_response(lines) ==
    LET has_contradictions == Contains(<<"Y","E","S">>, lines[1])
        confidence_line == SelectSeq(lines,
            LAMBDA line : Contains(<<"C","O","N","F","I","D","E","N","C","E">>, line))
        conf_parts == split(confidence_line[1], ":")
        conf == float(conf_parts[2])
        explanation_lines == SelectSeq(lines,
            LAMBDA line : Contains(<<"E","X","P","L","A","N","A","T","I","O","N">>, line))
        expl_parts == split1(explanation_lines[1], ":")
    IN  IF confidence_line # <<>> /\ Len(conf_parts) < 2 THEN [raised |-> TRUE]
        ELSE IF confidence_line # <<>> /\ ~conf.ok THEN [raised |-> TRUE]
        ELSE IF explanation_lines # <<>> /\ Len(expl_parts) < 2 THEN [raised |-> TRUE]
        ELSE [raised |-> FALSE,
              result |-> [has_contradictions |-> has_contradictions,
                          confidence |-> IF confidence_line # <<>> THEN conf.value ELSE 70,
                          explanation |-> IF explanation_lines # <<>>
                                          THEN strip(expl_parts[2]) ELSE <<>>]]

\* a wrong _check_contradictions_llm, which keeps the verdict of a reply it
\* cannot parse, with the default confidence
check_contradictions_llm_keeps_verdict(answer, chunk_list, outcome) ==
    IF outcome.raises THEN check_contradictions_heuristic(chunk_list)
    ELSE [has_contradictions |-> Contains(<<"Y","E","S">>, outcome.lines[1]),
          confidence |-> 70,
          explanation |-> <<>>]

\* _check_contradictions_llm: outcome is what model.generate_content did, an
\* exception or a reply; any exception falls back to the heuristic check
check_contradictions_llm(answer, chunk_list, outcome) ==
    IF outcome.raises THEN check_contradictions_heuristic(chunk_list)
    ELSE LET parsed == parse_llm_response(outcome.lines)
         IN  IF parsed.raised THEN check_contradictions_heuristic(chunk_list)
             ELSE parsed.result

\* dict.get(key): None is falsy, so FALSE for a missing key
Get(d, key) == IF key \in DOMAIN d THEN d[key] ELSE FALSE

\* a wrong _calculate_confidence, without the clamp to [0, 1]
calculate_confidence_unclamped(checks) ==
    100 - (IF checks.ambiguity_check.has_ambiguity
           THEN 15 * checks.ambiguity_check.count ELSE 0)
        - (IF checks.modal_verb_analysis.overall_certainty = "low" THEN 20
           ELSE IF checks.modal_verb_analysis.overall_certainty = "medium" THEN 10 ELSE 0)
        - (IF Get(checks.contradiction_check, "has_contradictions") THEN 30 ELSE 0)
        - (IF checks.legal_advice_check.is_legal_advice THEN 20 ELSE 0)

\* a wrong _calculate_confidence, with one ambiguity penalty however many
\* phrases were found
calculate_confidence_flat_ambiguity(checks) ==
    LET raw == 100 - (IF checks.ambiguity_check.has_ambiguity THEN 15 ELSE 0)
                   - (IF checks.modal_verb_analysis.overall_certainty = "low" THEN 20
                      ELSE IF checks.modal_verb_analysis.overall_certainty = "medium"
                      THEN 10 ELSE 0)
                   - (IF Get(checks.contradiction_check, "has_contradictions") THEN 30 ELSE 0)
                   - (IF checks.legal_advice_check.is_legal_advice THEN 20 ELSE 0)
    IN  IF raw < 0 THEN 0 ELSE raw

\* _calculate_confidence, in hundredths
calculate_confidence(checks) ==
    LET c0 == 100
        c1 == IF checks.ambiguity_check.has_ambiguity
              THEN c0 - 15 * checks.ambiguity_check.count ELSE c0
        c2 == IF checks.modal_verb_analysis.overall_certainty = "low" THEN c1 - 20
              ELSE IF checks.modal_verb_analysis.overall_certainty = "medium" THEN c1 - 10
              ELSE c1
        c3 == IF Get(checks.contradiction_check, "has_contradictions") THEN c2 - 30 ELSE c2
        c4 == IF checks.legal_advice_check.is_legal_advice THEN c3 - 20 ELSE c3
        lo == IF c4 < 100 THEN c4 ELSE 100
    IN  IF lo > 0 THEN lo ELSE 0

W_ambiguity == "This answer contains ambiguous language. Consider consulting official sources."
W_uncertain == "The policy contains language indicating flexibility or uncertainty."
W_contradiction == "Potential contradictions detected across source documents."
W_legal == "This topic may involve legal matters. Consult the legal services office."
W_low_confidence == "Low confidence answer. Please verify with official university office."

\* a wrong _generate_warnings, putting the low-confidence warning first
generate_warnings_low_confidence_first(checks) ==
    (IF checks.confidence_score < 50 THEN <<W_low_confidence>> ELSE <<>>)
    \o (IF checks.ambiguity_check.has_ambiguity THEN <<W_ambiguity>> ELSE <<>>)
    \o (IF checks.modal_verb_analysis.overall_certainty = "low" THEN <<W_uncertain>> ELSE <<>>)
    \o (IF Get(checks.contradiction_check, "has_contradictions") THEN <<W_contradiction>> ELSE <<>>)
    \o (IF checks.legal_advice_check.is_legal_advice THEN <<W_legal>> ELSE <<>>)

\* _generate_warnings
generate_warnings(checks) ==
    (IF checks.ambiguity_check.has_ambiguity THEN <<W_ambiguity>> ELSE <<>>)
    \o (IF checks.modal_verb_analysis.overall_certainty = "low" THEN <<W_uncertain>> ELSE <<>>)
    \o (IF Get(checks.contradiction_check, "has_contradictions") THEN <<W_contradiction>> ELSE <<>>)
    \o (IF checks.legal_advice_check.is_legal_advice THEN <<W_legal>> ELSE <<>>)
    \o (IF checks.confidence_score < 50 THEN <<W_low_confidence>> ELSE <<>>)

\* the recommendations; the f-string of the second interpolates source_count
R_contact == <<"Contact the relevant university department for clarification.">>
R_review_sources(source_count) ==
    <<"This answer references ", source_count,
      " different policy documents. Review all sources for complete information.">>
R_legal == <<"Speak with the university legal services office for legal matters.">>

\* _generate_recommendations
generate_recommendations(checks) ==
    (IF checks.ambiguity_check.has_ambiguity THEN <<R_contact>> ELSE <<>>)
    \o (IF Get(checks.contradiction_check, "multiple_sources")
        THEN <<R_review_sources(checks.contradiction_check.source_count)>> ELSE <<>>)
    \o (IF checks.legal_advice_check.is_legal_advice THEN <<R_legal>> ELSE <<>>)

\* a wrong branch of check_policy, which asks the service for any chunk list
calls_llm_whenever_configured(chunk_list) == use_llm

\* the branch of check_policy that picks the contradiction check
calls_llm(chunk_list) == use_llm /\ Len(chunk_list) > 1

\* check_policy, the dictionary literal: the checks that read the answer
initial_checks(answer, query) ==
    [ambiguity_check |-> check_ambiguity(answer),
     modal_verb_analysis |-> analyze_modal_verbs(answer),
     legal_advice_check |-> check_legal_advice(answer, query),
     confidence_score |-> 0,
     warnings |-> <<>>,
     recommendations |-> <<>>]

\* ... with contradiction_check added
with_contradiction_check(checks, contradiction_check) ==
    [k \in DOMAIN checks \cup {"contradiction_check"} |->
        IF k = "contradiction_check" THEN contradiction_check ELSE checks[k]]

\* check_policy, from the contradiction check to the return
complete_checks(checks, answer, retrieved_chunks, outcome) ==
    LET checks0 == with_contradiction_check(checks,
                        IF calls_llm(retrieved_chunks)
                        THEN check_contradictions_llm(answer, retrieved_chunks, outcome)
                        ELSE check_contradictions_heuristic(retrieved_chunks))
        checks1 == [checks0 EXCEPT !.confidence_score = calculate_confidence(checks0)]
        checks2 == [checks1 EXCEPT !.warnings = generate_warnings(checks1)]
    IN  [checks2 EXCEPT !.recommendations = generate_recommendations(checks2)]

(***************************************************************************)
(* The calls of check_policy                                               *)
(***************************************************************************)
MaxAnswerTokens == 3
MaxChunks == 2

\* the answer "It depends, may or may not, ..., check with": every ambiguous
\* phrase once, the first capitalised
AllHedges ==
    <<"I">> \o Tail(JoinWith(ambiguous_phrases, <<",", " ">>))

\* the words answers are made of: modals of each tier (one capitalised), a
\* word that only contains a modal ("maybe"), an ambiguous phrase, a legal
\* term (capitalised), a word that only contains one ("issue" holds "sue"),
\* and AllHedges
AnswerTokens == <<
    <<"M","u","s","t">>,
    <<"m","a","y">>,
    <<"s","h","o","u","l","d">>,
    <<"m","a","y","b","e">>,
    <<"u","n","c","l","e","a","r">>,
    <<"L","a","w","s","u","i","t">>,
    <<"i","s","s","u","e">>,
    AllHedges >>

RECURSIVE SeqsUpTo(_, _)
\* the sequences over S of length at most n
SeqsUpTo(S, n) ==
    IF n = 0 THEN {<<>>}
    ELSE LET shorter == SeqsUpTo(S, n - 1)
         IN  shorter \cup {Append(q, x) : q \in shorter, x \in S}

\* the selections of at most n tokens, repeats allowed, in vocabulary order
TokenSelections(n) ==
    {ix \in SeqsUpTo(DOMAIN AnswerTokens, n) :
        \A i \in 1..(Len(ix) - 1) : ix[i] <= ix[i + 1]}

\* an answer is its tokens joined by one space
Answers ==
    {JoinWith([i \in DOMAIN ix |-> AnswerTokens[ix[i]]], <<" ">>) :
        ix \in TokenSelections(MaxAnswerTokens)}

Queries == { <<"c","a","n"," ","i"," ","S","U","E">>,
             <<"p","a","r","k","i","n","g"," ","r","u","l","e","s">> }

Filenames == {"handbook.pdf", "parking.docx"}

\* a retrieved chunk, as VectorDBAgent.query shapes it (the fields read here)
RetrievedChunk(f) == [metadata |-> [filename |-> f, page_number |-> 1]]

ChunkLists == SeqsUpTo({RetrievedChunk(f) : f \in Filenames}, MaxChunks)

\* what model.generate_content can do: raise, or reply with these lines
LLMOutcomes == {
    [raises |-> TRUE],
    [raises |-> FALSE, lines |-> <<
        <<"H","A","S","_","C","O","N","T","R","A","D","I","C","T","I","O","N","S",":"," ","Y","E","S">>,
        <<"C","O","N","F","I","D","E","N","C","E",":"," ","0",".","9">>,
        <<"E","X","P","L","A","N","A","T","I","O","N",":"," ","c","o","n","f","l","i","c","t">> >>],
    [raises |-> FALSE, lines |-> <<
        <<"H","A","S","_","C","O","N","T","R","A","D","I","C","T","I","O","N","S",":"," ","N","O">>,
        <<"C","O","N","F","I","D","E","N","C","E",":"," ","0",".","8","5">>,
        <<"E","X","P","L","A","N","A","T","I","O","N",":"," ","c","o","n","s","i","s","t","e","n","t">> >>],
    [raises |-> FALSE, lines |-> <<
        <<"H","A","S","_","C","O","N","T","R","A","D","I","C","T","I","O","N","S",":"," ","Y","E","S">>,
        <<"E","X","P","L","A","N","A","T","I","O","N",":"," ","c","o","n","f","l","i","c","t">> >>],
    [raises |-> FALSE, lines |-> <<
        <<"H","A","S","_","C","O","N","T","R","A","D","I","C","T","I","O","N","S",":"," ","Y","E","S">>,
        <<"C","O","N","F","I","D","E","N","C","E",":"," ","h","i","g","h">> >>],
    [raises |-> FALSE, lines |-> <<
        <<"N","o"," ","c","o","n","t","r","a","d","i","c","t","i","o","n","s"," ","f","o","u","n","d">> >>] }

\* llm_outcome of a call that did not reach the service
NoCall == [called |-> FALSE]
\* report before any call
NoReport == [none |-> TRUE]

InitPolicy ==
    /\ use_llm \in BOOLEAN
    /\ p_pc = "idle"
    /\ p_answer = <<>>
    /\ p_chunks = <<>>
    /\ p_query = <<>>
    /\ llm_outcome = NoCall
    /\ llm_called = FALSE
    /\ report = NoReport

\* initial_checks, evaluated once for each answer and query of the model
InitialChecks == [a \in Answers, q \in Queries |-> initial_checks(a, q)]

\* check_policy
check_policy(answer, retrieved_chunks, query, outcome) ==
    complete_checks(IF <<answer, query>> \in DOMAIN InitialChecks
                    THEN InitialChecks[answer, query]
                    ELSE initial_checks(answer, query),
                    answer, retrieved_chunks, outcome)

\* one call of check_policy(answer, retrieved_chunks, query)
CheckPolicy(answer, retrieved_chunks, query, outcome) ==
    /\ p_pc = "idle"
    /\ IF calls_llm(retrieved_chunks) THEN outcome \in LLMOutcomes ELSE outcome = NoCall
    /\ p_pc' = "done"
    /\ p_answer' = answer
    /\ p_chunks' = retrieved_chunks
    /\ p_query' = query
    /\ llm_outcome' = outcome
    /\ llm_called' = calls_llm(retrieved_chunks)
    /\ report' = check_policy(answer, retrieved_chunks, query, outcome)
    /\ UNCHANGED use_llm

\* the call has returned; the agent keeps nothing of it
ReturnPolicy ==
    /\ p_pc = "done"
    /\ p_pc' = "idle"
    /\ p_answer' = <<>>
    /\ p_chunks' = <<>>
    /\ p_query' = <<>>
    /\ llm_outcome' = NoCall
    /\ llm_called' = FALSE
    /\ report' = NoReport
    /\ UNCHANGED use_llm

(***************************************************************************)
(* RecursiveCharacterTextSplitter, as ChunkerAgent.__init__ constructs it:  *)
(* the library's default separators, the separator kept at the start of    *)
(* the piece that follows it, lengths measured by len, chunks stripped.     *)
(* A splitter is the record c of its chunk_size and chunk_overlap.          *)
(***************************************************************************)
\* the default separators "\n\n", "\n", " ", ""
separators == << <<"\n", "\n">>, <<"\n">>, <<" ">>, <<>> >>

RECURSIVE split_keep(_, _, _, _)
\* re.split("(separator)", text) with each separator joined to the piece that
\* follows it; piece is the piece being read at position i
split_keep(text, separator, i, piece) ==
    IF i > Len(text) THEN <<piece>>
    ELSE IF MatchAt(separator, text, i)
    THEN <<piece>> \o split_keep(text, separator, i + Len(separator), separator)
    ELSE split_keep(text, separator, i + 1, Append(piece, text[i]))

\* _split_text_with_regex(text, separator, keep_separator=True): the empty
\* separator cuts the text into its characters; empty pieces are dropped
split_text_with_regex(text, separator) ==
    LET splits == IF separator # <<>> THEN split_keep(text, separator, 1, <<>>)
                  ELSE [i \in 1..Len(text) |-> <<text[i]>>]
    IN  SelectSeq(splits, LAMBDA s : s # <<>>)

\* _join_docs with strip_whitespace=False
join_docs_unstripped(docs, separator) == JoinWith(docs, separator)

\* _join_docs: the joined, stripped text; the empty text stands for None
join_docs(docs, separator) == strip(JoinWith(docs, separator))

RECURSIVE pop_front(_, _, _, _, _)
\* the while loop of _merge_splits: pieces leave the front of current_doc
\* until what is left fits the overlap and leaves room for a piece of length len
pop_front(current_doc, total, len, separator_len, c) ==
    IF \/ total > c.chunk_overlap
       \/ /\ total + len + (IF Len(current_doc) > 0 THEN separator_len ELSE 0) > c.chunk_size
          /\ total > 0
    THEN pop_front(Tail(current_doc),
                   total - (Len(current_doc[1])
                            + (IF Len(current_doc) > 1 THEN separator_len ELSE 0)),
                   len, separator_len, c)
    ELSE [current_doc |-> current_doc, total |-> total]

\* one iteration of the for loop of _merge_splits, on the piece d
merge_step(st, d, separator, c) ==
    LET separator_len == Len(separator)
        len == Len(d)
        full == st.total + len + (IF Len(st.current_doc) > 0 THEN separator_len ELSE 0)
                  > c.chunk_size
        doc == join_docs(st.current_doc, separator)
        st1 == IF full /\ Len(st.current_doc) > 0
               THEN LET p == pop_front(st.current_doc, st.total, len, separator_len, c)
                    IN  [docs |-> IF doc # <<>> THEN Append(st.docs, doc) ELSE st.docs,
                         current_doc |-> p.current_doc,
                         total |-> p.total]
               ELSE st
        current_doc == Append(st1.current_doc, d)
    IN  [docs |-> st1.docs,
         current_doc |-> current_doc,
         total |-> st1.total + len + (IF Len(current_doc) > 1 THEN separator_len ELSE 0)]

RECURSIVE merge_from(_, _, _, _, _)
merge_from(splits, k, st, separator, c) ==
    IF k > Len(splits) THEN st
    ELSE merge_from(splits, k + 1, merge_step(st, splits[k], separator, c), separator, c)

\* _merge_splits(splits, separator)
merge_splits(splits, separator, c) ==
    LET st == merge_from(splits, 1, [docs |-> <<>>, current_doc |-> <<>>, total |-> 0],
                         separator, c)
        doc == join_docs(st.current_doc, separator)
    IN  IF doc # <<>> THEN Append(st.docs, doc) ELSE st.docs

\* the first separator that is empty or occurs in the text, and those after it
pick_separator(text, seps) ==
    LET hits == {i \in DOMAIN seps : seps[i] = <<>> \/ Contains(seps[i], text)}
    IN  IF hits = {} THEN [separator |-> seps[Len(seps)], new_separators |-> <<>>]
        ELSE LET i == CHOOSE h \in hits : \A g \in hits : h <= g
             IN  [separator |-> seps[i],
                  new_separators |-> IF seps[i] = <<>> THEN <<>>
                                     ELSE SubSeq(seps, i + 1, Len(seps))]

RECURSIVE split_text_with(_, _, _)
RECURSIVE split_loop(_, _, _, _, _, _)
\* the for loop of _split_text over splits, from the k-th: a piece shorter than
\* chunk_size waits in good_splits to be merged; a longer one flushes them and
\* is split again by the separators left, or kept whole when none is left
split_loop(splits, k, final_chunks, good_splits, new_separators, c) ==
    IF k > Len(splits)
    THEN IF good_splits # <<>>
         THEN final_chunks \o merge_splits(good_splits, <<>>, c)
         ELSE final_chunks
    ELSE LET s == splits[k]
         IN  IF Len(s) < c.chunk_size
             THEN split_loop(splits, k + 1, final_chunks, Append(good_splits, s),
                             new_separators, c)
             ELSE LET flushed == IF good_splits # <<>>
                                 THEN final_chunks \o merge_splits(good_splits, <<>>, c)
                                 ELSE final_chunks
                      other_info == IF new_separators = <<>> THEN <<s>>
                                    ELSE split_text_with(s, new_separators, c)
                  IN  split_loop(splits, k + 1, flushed \o other_info, <<>>,
                                 new_separators, c)

\* _split_text(text, separators)
split_text_with(text, seps, c) ==
    LET p == pick_separator(text, seps)
    IN  split_loop(split_text_with_regex(text, p.separator), 1, <<>>, <<>>,
                   p.new_separators, c)

\* text_splitter.split_text(text)
split_text(text, c) == split_text_with(text, separators, c)

(***************************************************************************)
(* ChunkerAgent                                                            *)
(***************************************************************************)
\* len(s.split()): the maximal runs of non-whitespace characters
word_count(s) ==
    Cardinality({i \in 1..Len(s) : s[i] \notin Whitespace
                                   /\ (i = 1 \/ s[i - 1] \in Whitespace)})

RECURSIVE str(_)
\* str(n) for n >= 0
str(n) == IF n < 10 THEN <<Digits[n + 1]>>
          ELSE str(n \div 10) \o <<Digits[(n % 10) + 1]>>

\* hashlib.md5(filename.encode()).hexdigest()[:16], for the model's filenames
md5_hexdigest_16 ==
    [f \in Filenames |->
        IF f = "handbook.pdf"
        THEN <<"8","5","5","2","4","4","c","7","6","e","9","0","4","a","b","a">>
        ELSE <<"b","3","1","d","a","8","4","d","9","3","3","d","4","8","f","1">>]

\* _generate_document_id
generate_document_id(filename) == md5_hexdigest_16[filename]

\* the for loop of _chunk_text: the chunk made of each text the splitter
\* returned, the i-th (from 0) being text_chunks[i + 1]
chunk_data(text_chunks, page_number, filename, document_type, c) ==
    [k \in 1..Len(text_chunks) |->
        LET i == k - 1
        IN  [text |-> text_chunks[k],
             page_number |-> page_number,
             filename |-> filename,
             document_type |-> document_type,
             token_count |-> word_count(text_chunks[k]),
             char_count |-> Len(text_chunks[k]),
             start_token |-> i * (c.chunk_size - c.chunk_overlap),
             end_token |-> i * (c.chunk_size - c.chunk_overlap)
                           + word_count(text_chunks[k])]]

\* _chunk_text
chunk_text(text, page_number, filename, document_type, c) ==
    chunk_data(split_text(text, c), page_number, filename, document_type, c)

\* the chunk with the two fields chunk_document adds to it
with_ids(chunk, id, document_id) ==
    [text |-> chunk.text,
     page_number |-> chunk.page_number,
     filename |-> chunk.filename,
     document_type |-> chunk.document_type,
     token_count |-> chunk.token_count,
     char_count |-> chunk.char_count,
     start_token |-> chunk.start_token,
     end_token |-> chunk.end_token,
     chunk_id |-> id,
     document_id |-> document_id]

\* the inner loop of chunk_document with the counter started again for the page
number_chunks_per_page(page_chunks, first_id, filename) ==
    [k \in DOMAIN page_chunks |->
        with_ids(page_chunks[k], k - 1, generate_document_id(filename))]

\* the inner loop of chunk_document: the chunks of one page take the counter's
\* successive values, from first_id, and the document's id
number_chunks(page_chunks, first_id, filename) ==
    [k \in DOMAIN page_chunks |->
        with_ids(page_chunks[k], first_id + k - 1, generate_document_id(filename))]

\* VectorDBAgent.add_chunks: the id a chunk is stored under
storage_id(chunk) == chunk.document_id \o <<"_">> \o str(chunk.chunk_id)

(***************************************************************************)
(* The calls of chunk_document                                             *)
(***************************************************************************)
MaxChunkSize == 3
MaxPages == 3
MaxDocChars == 5

\* the settings a ChunkerAgent is constructed with: the splitter takes a
\* chunk_size of one character or more and an overlap up to the chunk_size
ChunkerSettings ==
    {c \in [chunk_size : 1..MaxChunkSize, chunk_overlap : 0..MaxChunkSize] :
        c.chunk_overlap <= c.chunk_size}

(***************************************************************************)
(* IngestionAgent.  A file is what the parsers read from it: texts, the    *)
(* text of each page as PyMuPDF extracts it (of each paragraph, for a      *)
(* DOCX); fitz_raises_after, the number of pages PyMuPDF has gone through  *)
(* when it raises, None when it does not raise; ocr, what OCR reads on     *)
(* each page (nothing where OCR fails); plumber, the text of each page as  *)
(* pdfplumber extracts it.                                                 *)
(***************************************************************************)
\* an optional value: None, or Some value
None == <<>>

Some(v) == <<v>>

\* the characters of the model's alphabet that are not ASCII
NonAscii ==
    {
     "","","","","","","","","","","","","","","","",
     "","","","","","","","","","","","","","","","",
     " ","¡","¢","£","¤","¥","¦","§","¨","©","ª","«","¬","­","®","¯",
     "°","±","²","³","´","µ","¶","·","¸","¹","º","»","¼","½","¾","¿",
     "À","Á","Â","Ã","Ä","Å","Æ","Ç","È","É","Ê","Ë","Ì","Í","Î","Ï",
     "Ð","Ñ","Ò","Ó","Ô","Õ","Ö","×","Ø","Ù","Ú","Û","Ü","Ý","Þ","ß",
     "à","á","â","ã","ä","å","æ","ç","è","é","ê","ë","ì","í","î","ï",
     "ð","ñ","ò","ó","ô","õ","ö","÷","ø","ù","ú","û","ü","ý","þ","ÿ" }

\* ' '.join(text.split()): the words of the text, one space between two
single_spaced(text) ==
    SelectSeq([i \in DOMAIN text |->
                  IF text[i] \notin Whitespace THEN text[i]
                  ELSE IF /\ i > 1
                          /\ text[i - 1] \notin Whitespace
                          /\ \E j \in (i + 1)..Len(text) : text[j] \notin Whitespace
                  THEN " "
                  ELSE ""],
              LAMBDA ch : ch # "")

\* text.replace('- ', '')
unhyphenated(text) ==
    SelectSeq([i \in DOMAIN text |->
                  IF \/ text[i] = "-" /\ i < Len(text) /\ text[i + 1] = " "
                     \/ text[i] = " " /\ i > 1 /\ text[i - 1] = "-"
                  THEN ""
                  ELSE text[i]],
              LAMBDA ch : ch # "")

\* _normalize_text: single spaces, 'word- word' joined, then
\* encode('ascii', 'ignore'), which leaves out every other character
normalize_text(text) ==
    SelectSeq(unhyphenated(single_spaced(text)), LAMBDA ch : ch \notin NonAscii)

\* a page as IngestionAgent shapes it
Page(page_number, text) ==
    [page_number |-> page_number, text |-> text, char_count |-> Len(text)]

\* _ocr_pdf_page(file_path, page_num): what OCR reads on the page, the
\* empty text when it fails
ocr_pdf_page(content, page_num) ==
    IF page_num + 1 \in DOMAIN content.ocr THEN content.ocr[page_num + 1] ELSE <<>>

\* the pages one pass over a PDF appends, numbered from 1: the extracted
\* text, or what OCR reads where it has fewer than 50 characters, normalised
pdf_pages(texts, content) ==
    [page_num \in DOMAIN texts |->
        Page(page_num,
             normalize_text(IF Len(strip(texts[page_num])) < 50
                            THEN ocr_pdf_page(content, page_num - 1)
                            ELSE texts[page_num]))]

\* _process_pdf: the pages of the PyMuPDF pass and, when that raised, after
\* the pages it had appended, those of the pdfplumber pass
process_pdf(file_path, content) ==
    [filename |-> file_path,
     document_type |-> "pdf",
     pages |-> IF content.fitz_raises_after = None
               THEN pdf_pages(content.texts, content)
               ELSE pdf_pages([i \in DOMAIN content.texts \cap 1..content.fitz_raises_after[1]
                                  |-> content.texts[i]], content)
                    \o pdf_pages(content.plumber, content)]

\* _process_docx: one page, numbered 1, of the paragraphs that are not blank
process_docx(file_path, content) ==
    [filename |-> file_path,
     document_type |-> "docx",
     pages |-> <<Page(1, normalize_text(
                            JoinWith(SelectSeq(content.texts, LAMBDA t : strip(t) # <<>>),
                                     <<"\n">>)))>>]

\* os.path.splitext(filename)[1].lower() for the model's filenames
file_ext(filename) ==
    IF filename = "handbook.pdf" THEN ".pdf"
    ELSE IF filename = "parking.docx" THEN ".docx"
    ELSE ".txt"

\* IngestionAgent.process_document on a file of a supported format
ingest(filename, content) ==
    IF file_ext(filename) = ".pdf" THEN process_pdf(filename, content)
    ELSE process_docx(filename, content)

\* a file on whose pages OCR reads the texts, the extracted text of each
\* page being too short to be kept
Scanned(texts, fitz_raises_after) ==
    [texts |-> texts, fitz_raises_after |-> fitz_raises_after, ocr |-> texts,
     plumber |-> texts]

\* the characters of the texts read from the files of the model
FileChars == {"a", " "}

\* the texts read from a page or paragraph: letters and spaces, and a text of
\* two letters that are not ASCII, of which _normalize_text leaves the space
FileTexts(n) ==
    SeqsUpTo(FileChars, n) \cup (IF n >= 3 THEN {<<"é", " ", "é">>} ELSE {})

RECURSIVE TextLists(_, _)
\* the lists of at most n texts of at most budget characters in all
TextLists(n, budget) ==
    IF n = 0 THEN {<<>>}
    ELSE {<<>>} \cup
         UNION {{<<t>> \o rest : rest \in TextLists(n - 1, budget - Len(t))} :
                   t \in FileTexts(budget)}

\* the PDF files given to the chunker's agent: PyMuPDF reads them through,
\* or raises after some pages, the document having MaxPages pages at most
PdfFiles ==
    {Scanned(texts, None) : texts \in TextLists(MaxPages, MaxDocChars)}
    \cup
    {Scanned(f[1], Some(f[2])) :
        f \in {g \in TextLists(MaxPages, MaxDocChars) \X (0..MaxPages) :
                  g[2] <= Len(g[1]) /\ g[2] + Len(g[1]) <= MaxPages}}

\* the documents IngestionAgent hands over (the fields read here)
Documents ==
    {ingest("handbook.pdf", content) : content \in PdfFiles}
    \cup
    {ingest("parking.docx", Scanned(texts, None)) :
        texts \in TextLists(MaxPages, MaxDocChars)}


\* before any call
NoDocument == [filename |-> "", document_type |-> "", pages |-> <<>>]

InitChunker ==
    /\ c_pc = "new"
    /\ chunk_size = 0
    /\ chunk_overlap = 0
    /\ document_data = NoDocument
    /\ page_idx = 0
    /\ chunk_id = 0
    /\ chunks = <<>>

\* ChunkerAgent(chunk_size, chunk_overlap)
ChunkerAgentInit(c) ==
    /\ c_pc = "new"
    /\ c_pc' = "idle"
    /\ chunk_size' = c.chunk_size
    /\ chunk_overlap' = c.chunk_overlap
    /\ UNCHANGED <<document_data, page_idx, chunk_id, chunks>>

\* chunk_document(document_data) is called: chunks = [], chunk_id = 0
ChunkDocument(doc) ==
    /\ c_pc = "idle"
    /\ c_pc' = "loop"
    /\ document_data' = doc
    /\ page_idx' = 0
    /\ chunk_id' = 0
    /\ chunks' = <<>>
    /\ UNCHANGED <<chunk_size, chunk_overlap>>

\* one iteration of for page in document_data['pages']
ChunkPage ==
    /\ c_pc = "loop"
    /\ page_idx < Len(document_data.pages)
    /\ LET page == document_data.pages[page_idx + 1]
           page_chunks == chunk_text(page.text, page.page_number,
                                     document_data.filename, document_data.document_type,
                                     [chunk_size |-> chunk_size,
                                      chunk_overlap |-> chunk_overlap])
       IN  /\ chunks' = chunks \o number_chunks(page_chunks, chunk_id, document_data.filename)
           /\ chunk_id' = chunk_id + Len(page_chunks)
    /\ page_idx' = page_idx + 1
    /\ UNCHANGED <<c_pc, chunk_size, chunk_overlap, document_data>>

\* return chunks
ChunkReturn ==
    /\ c_pc = "loop"
    /\ page_idx = Len(document_data.pages)
    /\ c_pc' = "done"
    /\ UNCHANGED <<chunk_size, chunk_overlap, document_data, page_idx, chunk_id, chunks>>

\* the call has returned; the agent keeps its settings and nothing of the call
ChunkerIdle ==
    /\ c_pc = "done"
    /\ c_pc' = "idle"
    /\ document_data' = NoDocument
    /\ page_idx' = 0
    /\ chunk_id' = 0
    /\ chunks' = <<>>
    /\ UNCHANGED <<chunk_size, chunk_overlap>>

(***************************************************************************)
(* The vector store (VectorDBAgent over a Chroma collection) and the       *)
(* retriever.  An optional argument is the empty sequence for None and a   *)
(* one-element sequence for a value.  The collection is the sequence of    *)
(* its entries in insertion order; distances and similarities are in       *)
(* hundredths.                                                             *)
(***************************************************************************)
\* settings.top_k_chunks
top_k_chunks == 7

\* the length get_citations cuts a snippet to
snippet_length == 200

\* SentenceTransformer.encode, abstracted to one coordinate read off the text
encode(text) == Len(text) % 7

\* EmbeddingAgent.embed_query
embed_query(query) == encode(query)

\* the distance the collection reports between two embeddings
distance_between(e, f) == 20 * (IF e >= f THEN e - f ELSE f - e)

\* the metadata add_chunks stores with a chunk
chunk_metadata(chunk) ==
    [filename |-> chunk.filename,
     page_number |-> chunk.page_number,
     document_type |-> chunk.document_type,
     chunk_id |-> chunk.chunk_id,
     document_id |-> chunk.document_id,
     token_count |-> chunk.token_count,
     char_count |-> chunk.char_count]

\* the entry of the collection add_chunks makes of a chunk with its embedding
collection_entry(chunk) ==
    [id |-> storage_id(chunk),
     embedding |-> chunk.embedding,
     document |-> chunk.text,
     metadata |-> chunk_metadata(chunk)]

\* a where filter of equalities on metadata keys, all of which must hold
where_matches(entry, where) ==
    where = None \/ \A k \in DOMAIN where[1] : entry.metadata[k] = where[1][k]

\* the positions of the collection a query may return, nearest first: every
\* order of the n_results nearest matching entries that ascends in distance
nearest_positions(coll, query_embedding, n_results, where) ==
    LET matching == {i \in DOMAIN coll : where_matches(coll[i], where)}
        d(i) == distance_between(query_embedding, coll[i].embedding)
        m == IF n_results < Cardinality(matching) THEN n_results ELSE Cardinality(matching)
    IN  {r \in [1..m -> matching] :
            /\ \A a, b \in 1..m : a < b => r[a] # r[b] /\ d(r[a]) <= d(r[b])
            /\ \A i \in matching : (\A a \in 1..m : r[a] # i) =>
                                        \A a \in 1..m : d(r[a]) <= d(i)}

\* collection.query(query_embeddings=[e], n_results=n, where=w): one of its
\* possible results, as the lists Chroma returns for the one query
collection_query(coll, query_embedding, r) ==
    [ids |-> [a \in DOMAIN r |-> coll[r[a]].id],
     documents |-> [a \in DOMAIN r |-> coll[r[a]].document],
     metadatas |-> [a \in DOMAIN r |-> coll[r[a]].metadata],
     distances |-> [a \in DOMAIN r |->
                        distance_between(query_embedding, coll[r[a]].embedding)]]

\* VectorDBAgent.query, from the collection's results to the returned chunks
format_results(results) ==
    [i \in DOMAIN results.ids |->
        [id |-> results.ids[i],
         text |-> results.documents[i],
         metadata |-> results.metadatas[i],
         distance |-> results.distances[i]]]

\* retrieve: top_k as handed to the store
effective_top_k_falsy(top_k) ==
    IF top_k = None \/ top_k = Some(0) THEN top_k_chunks ELSE top_k[1]

effective_top_k(top_k) == IF top_k = None THEN top_k_chunks ELSE top_k[1]

\* retrieve: filter_metadata, the dictionary of the filters that are truthy
filter_metadata_of(filter_by_document, filter_by_type) ==
    LET keys == (IF filter_by_document # None /\ filter_by_document[1] # ""
                 THEN {"filename"} ELSE {})
                \cup
                (IF filter_by_type # None /\ filter_by_type[1] # ""
                 THEN {"document_type"} ELSE {})
    IN  [k \in keys |-> IF k = "filename" THEN filter_by_document[1]
                        ELSE filter_by_type[1]]

\* retrieve: filter_metadata if filter_metadata else None
where_of(filter_metadata) ==
    IF DOMAIN filter_metadata = {} THEN None ELSE Some(filter_metadata)

\* retrieve: the post-processing loop with the similarity left out of order
with_similarity_reversed(found) ==
    [i \in DOMAIN found |->
        LET chunk == found[Len(found) + 1 - i]
        IN  [id |-> chunk.id, text |-> chunk.text, metadata |-> chunk.metadata,
             distance |-> chunk.distance, similarity_score |-> 100 - chunk.distance]]

\* retrieve: the post-processing loop, similarity_score = 1 - distance
with_similarity(found) ==
    [i \in DOMAIN found |->
        LET chunk == found[i]
        IN  [id |-> chunk.id, text |-> chunk.text, metadata |-> chunk.metadata,
             distance |-> chunk.distance, similarity_score |-> 100 - chunk.distance]]


\* str(filename), for the model's filenames
filename_text ==
    [f \in Filenames |->
        IF f = "handbook.pdf"
        THEN <<"h","a","n","d","b","o","o","k",".","p","d","f">>
        ELSE <<"p","a","r","k","i","n","g",".","d","o","c","x">>]

\* format_context: the part of one chunk, its tag line and its text line
context_part(chunk) ==
    <<"[","D","O","C",":"," ">> \o filename_text[chunk.metadata.filename]
    \o <<" ","|"," ","p","a","g","e",":"," ">> \o str(chunk.metadata.page_number)
    \o <<" ","|"," ","p","a","r","a","g","r","a","p","h",":"," ">>
    \o str(chunk.metadata.chunk_id) \o <<"]","\n">>
    \o chunk.text \o <<"\n">>

\* format_context that tags each chunk with its position in the list
format_context_by_position(chunk_list) ==
    JoinWith([i \in DOMAIN chunk_list |->
                context_part([chunk_list[i] EXCEPT !.metadata.chunk_id = i])], <<"\n">>)

\* format_context
format_context(chunk_list) ==
    JoinWith([i \in DOMAIN chunk_list |-> context_part(chunk_list[i])], <<"\n">>)

\* s[:n]
prefix(s, n) == SubSeq(s, 1, IF n < Len(s) THEN n ELSE Len(s))

\* get_citations with the cut made at snippet_length characters or more
get_citations_cut_at_length(chunk_list) ==
    [i \in DOMAIN chunk_list |->
        LET chunk == chunk_list[i]
        IN  [filename |-> chunk.metadata.filename,
             page_number |-> chunk.metadata.page_number,
             chunk_id |-> chunk.metadata.chunk_id,
             text_snippet |-> IF Len(chunk.text) >= snippet_length
                              THEN prefix(chunk.text, snippet_length) \o <<".",".",".">>
                              ELSE chunk.text]]

\* get_citations
get_citations(chunk_list) ==
    [i \in DOMAIN chunk_list |->
        LET chunk == chunk_list[i]
        IN  [filename |-> chunk.metadata.filename,
             page_number |-> chunk.metadata.page_number,
             chunk_id |-> chunk.metadata.chunk_id,
             text_snippet |-> IF Len(chunk.text) > snippet_length
                              THEN prefix(chunk.text, snippet_length) \o <<".",".",".">>
                              ELSE chunk.text]]

(***************************************************************************)
(* The calls of RetrieverAgent                                             *)
(***************************************************************************)
MaxTopK == 2

\* a page text of n characters, in words of nine letters, whose characters
\* past snippet_length are "b"
LongText(n) ==
    [i \in 1..n |-> IF i > snippet_length THEN "b" ELSE IF i % 10 = 0 THEN " " ELSE "a"]

\* a chunk as chunk_document and embed_chunks leave it
EmbeddedChunk(filename, document_type, page_number, id, text) ==
    [text |-> text,
     page_number |-> page_number,
     filename |-> filename,
     document_type |-> document_type,
     token_count |-> word_count(text),
     char_count |-> Len(text),
     chunk_id |-> id,
     document_id |-> generate_document_id(filename),
     embedding |-> encode(text)]

\* what the persistent collection may hold when the service starts: nothing,
\* short chunks of two documents, or chunks around snippet_length characters
PersistedCollections == {
    <<>>,
    << collection_entry(EmbeddedChunk("handbook.pdf", "pdf", 1, 0, <<"a","a"," ","a">>)),
       collection_entry(EmbeddedChunk("handbook.pdf", "pdf", 2, 1, <<"a">>)),
       collection_entry(EmbeddedChunk("parking.docx", "docx", 1, 0, <<"a"," ","a">>)) >>,
    << collection_entry(EmbeddedChunk("handbook.pdf", "pdf", 1, 0, LongText(snippet_length))),
       collection_entry(EmbeddedChunk("handbook.pdf", "pdf", 1, 1, LongText(snippet_length + 1))),
       collection_entry(EmbeddedChunk("handbook.pdf", "pdf", 3, 2, LongText(snippet_length - 1))),
       collection_entry(EmbeddedChunk("parking.docx", "docx", 1, 0, LongText(snippet_length + 4))) >> }

\* top_k as a caller passes it: absent, or a number from 0
TopKs == {None} \cup {Some(k) : k \in 0..MaxTopK}

\* filter_by_document as a caller passes it: absent, empty, a stored
\* filename, or a filename nothing is stored under
DocumentFilters == {None, Some(""), Some("handbook.pdf"), Some("missing.pdf")}

\* filter_by_type as a caller of retrieve passes it
TypeFilters == {None, Some(""), Some("pdf")}

NoArgs == [query |-> <<>>, top_k |-> None, filter_by_document |-> None,
           filter_by_type |-> None]

NoStoreCall == [called |-> FALSE]

NoLast == [chunks |-> <<>>, context |-> <<>>, citations |-> <<>>]

InitRetriever ==
    /\ db_pc = "new"
    /\ collection = <<>>
    /\ q_pc = "idle"
    /\ q_args = NoArgs
    /\ store_call = NoStoreCall
    /\ store_chunks = <<>>
    /\ q_chunks = <<>>
    /\ q_context = <<>>
    /\ q_citations = <<>>
    /\ q_last = NoLast

\* VectorDBAgent(): get_or_create_collection finds what was persisted
VectorDBAgentInit(persisted) ==
    /\ db_pc = "new"
    /\ db_pc' = "open"
    /\ collection' = persisted
    /\ UNCHANGED <<q_pc, q_args, store_call, store_chunks, q_chunks, q_context,
                   q_citations, q_last>>

\* whether collection.query returns: never for n_results below 1
QueryReturns(n_results, returns) == n_results >= 1 /\ returns

\* whether retrieve returns: embed_query and then collection.query do
RetrieveReturns(n_results, embeds, returns) == embeds /\ QueryReturns(n_results, returns)

\* retrieve(query, top_k, filter_by_document, filter_by_type), down to
\* VectorDBAgent.query and collection.query; embeds is FALSE when the
\* embedding model raises, which is before the filter is built and the
\* store is called; returns is FALSE when the collection raises; r is the
\* collection's choice among equally near entries
Retrieve(query, top_k, filter_by_document, filter_by_type, embeds, returns, r) ==
    LET n_results == effective_top_k(top_k)
        where == where_of(filter_metadata_of(filter_by_document, filter_by_type))
        query_embedding == embed_query(query)
        results == collection_query(collection, query_embedding, r)
    IN  /\ db_pc = "open"
        /\ q_pc = "idle"
        /\ q_args' = [query |-> query, top_k |-> top_k,
                      filter_by_document |-> filter_by_document,
                      filter_by_type |-> filter_by_type]
        /\ store_call' = IF embeds
                         THEN [called |-> TRUE, n_results |-> n_results, where |-> where]
                         ELSE NoStoreCall
        /\ IF RetrieveReturns(n_results, embeds, returns)
           THEN /\ r \in nearest_positions(collection, query_embedding, n_results, where)
                /\ store_chunks' = format_results(results)
                /\ q_chunks' = with_similarity(format_results(results))
                /\ q_pc' = "retrieved"
           ELSE /\ r = <<>>
                /\ store_chunks' = <<>>
                /\ q_chunks' = <<>>
                /\ q_pc' = "raised"
        /\ UNCHANGED <<db_pc, collection, q_context, q_citations, q_last>>

\* format_context(chunks) and get_citations(chunks) on what retrieve returned
FormatAndCite ==
    /\ q_pc = "retrieved"
    /\ q_pc' = "formatted"
    /\ q_context' = format_context(q_chunks)
    /\ q_citations' = get_citations(q_chunks)
    /\ UNCHANGED <<db_pc, collection, q_args, store_call, store_chunks, q_chunks, q_last>>

\* the calls have returned; q_last keeps the chunks and outputs of the last
\* format_context and get_citations for comparison with the next
RetrieverIdle ==
    /\ q_pc \in {"raised", "formatted"}
    /\ q_pc' = "idle"
    /\ q_last' = IF q_pc = "formatted"
                 THEN [chunks |-> q_chunks, context |-> q_context,
                       citations |-> q_citations]
                 ELSE q_last
    /\ q_args' = NoArgs
    /\ store_call' = NoStoreCall
    /\ store_chunks' = <<>>
    /\ q_chunks' = <<>>
    /\ q_context' = <<>>
    /\ q_citations' = <<>>
    /\ UNCHANGED <<db_pc, collection>>

(***************************************************************************)
(* AnswerGeneratorAgent                                                    *)
(***************************************************************************)
\* the words of _create_prompt's text outside the query and the context
prompt_template_words == 244

\* len(prompt.split()) for the prompt _create_prompt builds: the query
\* stands once between quotes and once on a line of its own
prompt_word_count(query, context) ==
    prompt_template_words + word_count(<<"\"">> \o query \o <<"\"">>)
    + word_count(context) + word_count(query)

\* the position of the first blank line ("\n\n") of a text, 0 if none
first_blank_line(s) ==
    LET at == {i \in 1..(Len(s) - 1) : s[i] = "\n" /\ s[i + 1] = "\n"}
    IN  IF at = {} THEN 0 ELSE CHOOSE i \in at : \A j \in at : i <= j

\* the position of the first newline of a text, 0 if none
first_newline(s) ==
    LET at == {i \in 1..Len(s) : s[i] = "\n"}
    IN  IF at = {} THEN 0 ELSE CHOOSE i \in at : \A j \in at : i <= j

\* _parse_answer
parse_answer(answer_text) ==
    LET b == first_blank_line(answer_text)
        n == first_newline(answer_text)
    IN  IF b > 0
        THEN [summary |-> strip(SubSeq(answer_text, 1, b - 1)),
              detailed |-> strip(SubSeq(answer_text, b + 2, Len(answer_text)))]
        ELSE IF n > 0
        THEN [summary |-> strip(SubSeq(answer_text, 1, n - 1)),
              detailed |-> strip(SubSeq(answer_text, n + 1, Len(answer_text)))]
        ELSE [summary |-> strip(answer_text), detailed |-> answer_text]

\* settings.llm_model
llm_model == "models/gemma-3-1b-it"

\* generate_answer; outcome is what model.generate_content and response.text did
generate_answer(query, context, citations, outcome) ==
    IF outcome.raises
    THEN [answer |-> <<"E","r","r","o","r"," ","g","e","n","e","r","a","t","i","n","g"," ","a","n","s","w","e","r",":"," ">> \o outcome.error,
          citations |-> citations,
          error |-> outcome.error]
    ELSE [answer |-> outcome.text,
          summary |-> parse_answer(outcome.text).summary,
          detailed_answer |-> parse_answer(outcome.text).detailed,
          citations |-> citations,
          model |-> llm_model,
          tokens_used |-> prompt_word_count(query, context) + word_count(outcome.text)]

\* q.lstrip('0123456789.)- ') (the bullet character the code also strips
\* is in none of the model's texts)
lstrip_numbering(s) ==
    LET keep == {i \in 1..Len(s) :
                    s[i] \notin (Range(Digits) \cup {".", ")", "-", " "})}
    IN  IF keep = {} THEN <<>>
        ELSE SubSeq(s, CHOOSE i \in keep : \A j \in keep : i <= j, Len(s))

\* generate_followup_questions
generate_followup_questions(outcome) ==
    IF outcome.raises THEN <<>>
    ELSE LET is_question(line) == strip(line) # <<>> /\ \E i \in DOMAIN line : line[i] = "?"
             kept == SelectSeq(split(outcome.text, "\n"), is_question)
             questions == [i \in DOMAIN kept |-> lstrip_numbering(strip(kept[i]))]
         IN  prefix(questions, 3)

(***************************************************************************)
(* The /query handler of the service, step by step.  The handler is a      *)
(* coroutine that never awaits: no other handler or background task runs   *)
(* while it does.                                                          *)
(***************************************************************************)
\* QueryRequest: query, top_k, filter_by_document
QueryRequests ==
    [query : Queries, top_k : TopKs, filter_by_document : DocumentFilters]

\* what model.generate_content can do for generate_answer: raise, or reply
AnswerOutcomes == {
    [raises |-> TRUE, error |-> <<"q","u","o","t","a"," ","e","x","c","e","e","d","e","d">>],
    [raises |-> FALSE, text |-> <<"M","u","s","t">>],
    [raises |-> FALSE, text |-> <<"m","a","y">>],
    [raises |-> FALSE, text |-> <<"L","a","w","s","u","i","t"," ","u","n","c","l","e","a","r">>],
    [raises |-> FALSE, text |-> <<"M","u","s","t","\n","\n","m","a","y">>] }

\* what model.generate_content can do for generate_followup_questions
FollowupOutcomes == {
    [raises |-> TRUE],
    [raises |-> FALSE, text |-> <<"H","e","r","e"," ","a","r","e"," ","s","o","m","e",":","\n","1","."," ","W","h","o"," ","p","a","y","s","?","\n","\n","-"," ","W","h","e","n","?","\n","2",")"," ","W","h","e","r","e","?","\n","3","."," ","W","h","y","?">>] }

NoAnswer == [none |-> TRUE]

NoResponse == [status |-> 0]

InitQuery ==
    /\ q_invoked = <<>>
    /\ answer_result = NoAnswer
    /\ followup_questions = <<>>
    /\ q_response = NoResponse
    /\ q_logged = None

\* the agents are constructed when the service starts: AnswerGeneratorAgent
\* raises without an API key, the key that also sets PolicyCheckerAgent.use_llm
ServiceStart(persisted, c) ==
    /\ use_llm
    /\ ChunkerAgentInit(c)
    /\ VectorDBAgentInit(persisted)

\* Step 1: retriever_agent.retrieve(query, top_k, filter_by_document)
QueryRetrieve(request, embeds, returns, r) ==
    /\ Retrieve(request.query, request.top_k, request.filter_by_document, None, embeds,
                returns, r)
    /\ q_invoked' = <<"retrieve">>
    /\ UNCHANGED <<answer_result, followup_questions, q_response, q_logged, policy_vars>>

\* a test of the retrieved list that never takes the early return
no_chunks_never(chunk_list) == FALSE

\* not chunks
no_chunks(chunk_list) == chunk_list = <<>>

no_information_answer ==
    <<"I"," ","d","o","n","'","t"," ","h","a","v","e"," ","a","n","y"," ","i","n","f","o","r","m","a","t","i","o","n"," ","t","o"," ","a","n","s","w","e","r"," ","t","h","i","s"," ","q","u","e","s","t","i","o","n","."," ","P","l","e","a","s","e"," ","u","p","l","o","a","d"," ","r","e","l","e","v","a","n","t"," ","p","o","l","i","c","y"," ","d","o","c","u","m","e","n","t","s"," ","f","i","r","s","t",".">>

\* if not chunks: the response returned without going further
RespondNoInformation ==
    /\ q_pc = "retrieved"
    /\ no_chunks(q_chunks)
    /\ q_pc' = "responded"
    /\ q_response' = [status |-> 200,
                      answer |-> no_information_answer,
                      citations |-> <<>>,
                      confidence_score |-> 0,
                      warnings |-> <<"No relevant documents found">>,
                      recommendations |-> <<"Upload university policy documents to get started">>,
                      followup_questions |-> None,
                      metadata |-> [chunks_retrieved |-> 0]]
    /\ UNCHANGED <<db_pc, collection, q_args, store_call, store_chunks, q_chunks,
                   q_context, q_citations, q_last, q_invoked, answer_result,
                   followup_questions, q_logged, policy_vars>>

\* Step 2: format_context and get_citations
QueryFormat ==
    /\ ~no_chunks(q_chunks)
    /\ FormatAndCite
    /\ q_invoked' = q_invoked \o <<"format_context", "get_citations">>
    /\ UNCHANGED <<answer_result, followup_questions, q_response, q_logged, policy_vars>>

\* Step 3: answer_generator_agent.generate_answer(query, context, citations)
GenerateAnswer(outcome) ==
    /\ q_pc = "formatted"
    /\ q_pc' = "answered"
    /\ answer_result' = generate_answer(q_args.query, q_context, q_citations, outcome)
    /\ q_invoked' = Append(q_invoked, "generate_answer")
    /\ UNCHANGED <<db_pc, collection, q_args, store_call, store_chunks, q_chunks,
                   q_context, q_citations, q_last, followup_questions, q_response,
                   q_logged, policy_vars>>

\* Step 4: policy_checker_agent.check_policy(answer, chunks, query)
QueryCheckPolicy(outcome) ==
    /\ q_pc = "answered"
    /\ q_pc' = "checked"
    /\ CheckPolicy(answer_result.answer, q_chunks, q_args.query, outcome)
    /\ q_invoked' = Append(q_invoked, "check_policy")
    /\ UNCHANGED <<db_pc, collection, q_args, store_call, store_chunks, q_chunks,
                   q_context, q_citations, q_last, answer_result, followup_questions,
                   q_response, q_logged>>

\* Step 5: answer_generator_agent.generate_followup_questions(query, answer)
GenerateFollowups(outcome) ==
    /\ q_pc = "checked"
    /\ q_pc' = "followed"
    /\ followup_questions' = generate_followup_questions(outcome)
    /\ q_invoked' = Append(q_invoked, "generate_followup_questions")
    /\ UNCHANGED <<db_pc, collection, q_args, store_call, store_chunks, q_chunks,
                   q_context, q_citations, q_last, answer_result, q_response,
                   q_logged, policy_vars>>

\* dict.get(key, default) on answer_result
get_or(d, key, default) == IF key \in DOMAIN d THEN d[key] ELSE default

\* HTTPException(500): detail is this text, followed by ": " and str(e)
query_failed == [status |-> 500, detail |-> "Query processing failed"]

\* log_feedback and the QueryResponse; logged is FALSE when writing the log
\* raises, which the handler turns into HTTP 500 like any other exception;
\* q_logged is the line the request appended to the log
Respond(logged) ==
    /\ q_pc = "followed"
    /\ q_pc' = "responded"
    /\ q_invoked' = Append(q_invoked, "log_feedback")
    /\ q_logged' = IF ~logged THEN None
                   ELSE Some([type |-> "query",
                              query |-> q_args.query,
                              answer |-> answer_result.answer,
                              confidence |-> report.confidence_score,
                              chunks_used |-> Len(q_chunks)])
    /\ q_response' =
         IF ~logged THEN query_failed
         ELSE [status |-> 200,
               answer |-> answer_result.answer,
               citations |-> answer_result.citations,
               confidence_score |-> report.confidence_score,
               warnings |-> report.warnings,
               recommendations |-> report.recommendations,
               followup_questions |-> Some(followup_questions),
               metadata |->
                 [chunks_retrieved |-> Len(q_chunks),
                  tokens_used |-> get_or(answer_result, "tokens_used", 0),
                  model |-> get_or(answer_result, "model", "unknown"),
                  policy_checks |->
                    [ambiguity |-> report.ambiguity_check,
                     modal_verbs |-> report.modal_verb_analysis,
                     contradictions |-> report.contradiction_check,
                     legal_advice |-> report.legal_advice_check]]]
    /\ UNCHANGED <<db_pc, collection, q_args, store_call, store_chunks, q_chunks,
                   q_context, q_citations, q_last, answer_result, followup_questions,
                   policy_vars>>

\* except Exception: retrieve raised, the handler answers HTTP 500
RespondError ==
    /\ q_pc = "raised"
    /\ q_pc' = "responded"
    /\ q_response' = query_failed
    /\ UNCHANGED <<db_pc, collection, q_args, store_call, store_chunks, q_chunks,
                   q_context, q_citations, q_last, q_invoked, answer_result,
                   followup_questions, q_logged, policy_vars>>

\* the response is sent and the request is over
QueryIdle ==
    /\ q_pc = "responded"
    /\ q_pc' = "idle"
    /\ q_args' = NoArgs
    /\ store_call' = NoStoreCall
    /\ store_chunks' = <<>>
    /\ q_chunks' = <<>>
    /\ q_context' = <<>>
    /\ q_citations' = <<>>
    /\ q_invoked' = <<>>
    /\ answer_result' = NoAnswer
    /\ followup_questions' = <<>>
    /\ q_response' = NoResponse
    /\ q_logged' = None
    /\ IF p_pc = "done" THEN ReturnPolicy ELSE UNCHANGED policy_vars
    /\ UNCHANGED <<db_pc, collection, q_last>>

(***************************************************************************)
(* The /upload handler and the background task process_document.  Both    *)
(* are coroutines that never await, so each runs as one step; a background *)
(* task runs after the response of its request is sent, so that other      *)
(* requests and tasks may come between an upload and its processing.       *)
(***************************************************************************)
MaxUploads == 2
MaxClock == 1

RECURSIVE chunk_pages(_, _, _, _, _)
\* chunk_document: the loop over the pages, from page i with the counter at id
chunk_pages(document, c, i, id, acc) ==
    IF i > Len(document.pages) THEN acc
    ELSE LET page == document.pages[i]
             page_chunks == chunk_text(page.text, page.page_number, document.filename,
                                       document.document_type, c)
         IN  chunk_pages(document, c, i + 1, id + Len(page_chunks),
                         acc \o number_chunks(page_chunks, id, document.filename))

\* chunk_document(document_data) of a ChunkerAgent with settings c
chunk_document(document, c) == chunk_pages(document, c, 1, 0, <<>>)

\* EmbeddingAgent.embed_chunks
embed_chunks(chunk_list) ==
    [i \in DOMAIN chunk_list |->
        [k \in DOMAIN chunk_list[i] \cup {"embedding"} |->
            IF k = "embedding" THEN encode(chunk_list[i].text) ELSE chunk_list[i][k]]]

\* the ids of the entries of a collection
ids_of(coll) == {coll[i].id : i \in DOMAIN coll}

\* collection.add of ids that are stored already does not replace them:
\* depending on the Chroma release it raises or leaves those ids as they are
DuplicatePolicies == {"raise", "ignore"}

\* add_chunks adds the chunks in batches of this many, one collection.add each
batch_size == 100

\* the number of collection.add calls add_chunks makes (none for no chunks)
batch_count(chunk_list) == (Len(chunk_list) + batch_size - 1) \div batch_size

\* the positions in chunk_list of the chunks of the b-th batch
batch_positions(chunk_list, b) ==
    {i \in DOMAIN chunk_list : (b - 1) * batch_size < i /\ i <= b * batch_size}

\* the collection.add of the b-th batch raises by the store's doing: the
\* collection rejects an id that is stored already
batch_rejected(coll, chunk_list, b, on_duplicate) ==
    /\ on_duplicate = "raise"
    /\ \E i \in batch_positions(chunk_list, b) :
          \/ storage_id(chunk_list[i]) \in ids_of(coll)
          \/ \E j \in 1..(i - 1) : storage_id(chunk_list[j]) = storage_id(chunk_list[i])

\* the first batch whose collection.add raises, 0 when add_chunks returns:
\* the batch failing_batch, in which the store fails (0: in none), or an
\* earlier one the store rejects
first_raising_batch(coll, chunk_list, failing_batch, on_duplicate) ==
    LET raising == {b \in 1..batch_count(chunk_list) :
                       b = failing_batch \/ batch_rejected(coll, chunk_list, b, on_duplicate)}
    IN  IF raising = {} THEN 0 ELSE CHOOSE b \in raising : \A other \in raising : b <= other

\* VectorDBAgent.add_chunks raises: the collection rejects a stored id
add_chunks_raises(coll, chunk_list, on_duplicate) ==
    first_raising_batch(coll, chunk_list, 0, on_duplicate) # 0

\* VectorDBAgent.add_chunks when it returns: the collection afterwards
add_chunks(coll, chunk_list, on_duplicate) ==
    coll \o SelectSeq([i \in DOMAIN chunk_list |-> collection_entry(chunk_list[i])],
                      LAMBDA e : e.id \notin ids_of(coll))

\* VectorDBAgent.add_chunks when the collection.add of batch b raises: the
\* collection holding the batches added before it
add_chunks_until(coll, chunk_list, b, on_duplicate) ==
    add_chunks(coll, SubSeq(chunk_list, 1, (b - 1) * batch_size), on_duplicate)

\* the names files are uploaded under
UploadNames == Filenames \cup {"notes.txt"}

\* the files uploaded: two pages, one page, and no page, read by OCR
FileContents ==
    { Scanned(<< <<"a"," ","a">>, <<"a">> >>, None),
      Scanned(<< <<"a","a">> >>, None),
      Scanned(<<>>, None) }

\* what saving the uploaded file comes to: it is written; open raises, no
\* file being created; or the copy raises after open has created the file
\* or emptied the one that was there
SaveOutcomes == {"saved", "open raises", "copy raises"}

\* the file holding the first k texts of content
truncated(content, k) ==
    [texts |-> SubSeq(content.texts, 1, k),
     fitz_raises_after |-> IF content.fitz_raises_after # None
                              /\ content.fitz_raises_after[1] > k
                           THEN Some(k) ELSE content.fitz_raises_after,
     ocr |-> SubSeq(content.ocr, 1, IF k < Len(content.ocr) THEN k ELSE Len(content.ocr)),
     plumber |-> SubSeq(content.plumber, 1,
                        IF k < Len(content.plumber) THEN k ELSE Len(content.plumber))]

\* what is at file_path after the save: the content, or what of it was
\* written when the copy raised
Written(content, save) ==
    IF save = "copy raises"
    THEN {truncated(content, k) : k \in 0..Len(content.texts)}
    ELSE {content}

\* steps 1 and 2 of process_document, evaluated once for each file and
\* setting of the model (@@ makes the function an explicit table)
ChunkedFiles ==
    [filename \in Filenames,
     content \in UNION {Written(f, "copy raises") : f \in FileContents},
     c \in ChunkerSettings |->
        chunk_document(ingest(filename, content), c)] @@ <<>>

\* job_id: the time to the second, then the filename
job_id_of(now, filename) == <<now, filename>>

\* f[k] = v, for k in the domain of f or not
put(f, k, v) == [j \in DOMAIN f \cup {k} |-> IF j = k THEN v ELSE f[j]]

InitUpload ==
    /\ clock = 0
    /\ upload_dir = [f \in UploadNames |-> None]
    /\ upload_jobs = <<>>
    /\ background_tasks = <<>>
    /\ uploads = <<>>
    /\ processed = <<>>
    /\ u_request = None
    /\ u_response = None
    /\ deleted = {}

\* time passes
Tick ==
    /\ clock < MaxClock
    /\ clock' = clock + 1
    /\ UNCHANGED <<upload_dir, upload_jobs, background_tasks, uploads, processed,
                   u_request, u_response, deleted>>

\* the responses of /upload
unsupported_file_type ==
    [status |-> 400,
     detail |-> "Unsupported file type. Only PDF and DOCX files are allowed."]
failed_to_save == [status |-> 500, detail |-> "Failed to save file"]
uploaded(job_id, filename) ==
    [status |-> 200, message |-> "File uploaded successfully", job_id |-> job_id,
     filename |-> filename, job_status |-> "processing"]

\* POST /upload of a file, written being what the save leaves at file_path.
\* An unsupported extension is answered HTTP 400 with nothing changed, and
\* a failed save HTTP 500 with no job and no task, the file at file_path
\* being created or overwritten unless it was open that raised.  uploads
\* keeps the accepted uploads in order.  (The time stamps of the job
\* records are left out.)
UploadDocument(filename, content, save, written) ==
    /\ db_pc = "open"
    /\ Len(uploads) < MaxUploads
    /\ u_request' = Some(filename)
    /\ IF file_ext(filename) \notin {".pdf", ".docx", ".doc"}
       THEN /\ u_response' = Some(unsupported_file_type)
            /\ UNCHANGED <<upload_dir, upload_jobs, background_tasks, uploads, deleted>>
       ELSE IF save # "saved"
       THEN /\ u_response' = Some(failed_to_save)
            /\ upload_dir' = IF save = "copy raises"
                             THEN [upload_dir EXCEPT ![filename] = Some(written)]
                             ELSE upload_dir
            /\ deleted' = deleted \ {generate_document_id(filename)}
            /\ UNCHANGED <<upload_jobs, background_tasks, uploads>>
       ELSE LET job_id == job_id_of(clock, filename)
            IN  /\ upload_dir' = [upload_dir EXCEPT ![filename] = Some(written)]
                /\ background_tasks' =
                      Append(background_tasks,
                             [job_id |-> job_id, file_path |-> filename,
                              upload |-> Len(uploads) + 1])
                /\ upload_jobs' = put(upload_jobs, job_id,
                                      [status |-> "processing", filename |-> filename])
                /\ uploads' = Append(uploads, [job_id |-> job_id, filename |-> filename,
                                               content |-> content])
                /\ u_response' = Some(uploaded(job_id, filename))
                /\ deleted' = deleted \ {generate_document_id(filename)}
    /\ UNCHANGED <<clock, processed>>

\* the steps of process_document that may raise
ProcessingSteps == {"ingest", "chunk", "embed", "store", "log"}

\* str(e) of the exception a step raises
error_text(step) ==
    IF step = "ingest" THEN "cannot open document"
    ELSE IF step = "chunk" THEN "chunking failed"
    ELSE IF step = "embed" THEN "embedding failed"
    ELSE IF step = "store" THEN "collection unavailable"
    ELSE IF step = "log" THEN "cannot write log"
    ELSE "ID already exists"

\* process_document from step 4 on: the job record it leaves, and the
\* collection, when the step failing raises ("none": no step raises of
\* itself; "store": the store fails in the collection.add of failing_batch).
\* What add_chunks had added when a batch raised stays in the collection.
store_and_record(chunk_list, chunks_with_embeddings, file_path, coll, failing, failing_batch, on_duplicate) ==
    LET failed(text) == [status |-> "failed", filename |-> file_path, error |-> text]
        raising == first_raising_batch(coll, chunks_with_embeddings,
                                       IF failing = "store" THEN failing_batch ELSE 0,
                                       on_duplicate)
    IN  IF failing \in {"ingest", "chunk", "embed"}
        THEN [job |-> failed(error_text(failing)), collection |-> coll]
        ELSE IF raising # 0
        THEN [job |-> failed(error_text(IF failing = "store" /\ raising = failing_batch
                                        THEN "store" ELSE "duplicate")),
              collection |-> add_chunks_until(coll, chunks_with_embeddings, raising,
                                              on_duplicate)]
        ELSE IF failing = "log"
        THEN [job |-> failed(error_text("log")),
              collection |-> add_chunks(coll, chunks_with_embeddings, on_duplicate)]
        ELSE [job |-> [status |-> "completed", filename |-> file_path,
                       chunks_created |-> Len(chunk_list)],
              collection |-> add_chunks(coll, chunks_with_embeddings, on_duplicate)]

\* process_document from step 3 on
embed_and_store(chunk_list, file_path, coll, failing, failing_batch, on_duplicate) ==
    store_and_record(chunk_list, embed_chunks(chunk_list), file_path, coll, failing,
                     failing_batch, on_duplicate)

\* process_document that records a job as completed whatever happened
process_document_always_completed(content, file_path, c, coll, failing, failing_batch, on_duplicate) ==
    [job |-> [status |-> "completed", filename |-> file_path, chunks_created |-> 0],
     collection |-> coll]

\* steps 1 and 2 of process_document: the chunks of the file at file_path
chunks_of_file(content, file_path, c) ==
    IF <<file_path, content, c>> \in DOMAIN ChunkedFiles
    THEN ChunkedFiles[file_path, content, c]
    ELSE chunk_document(ingest(file_path, content), c)

\* the step of process_document that raises when the step failing is made to
\* raise wherever it is called: chunk_document calls the splitter once for
\* each page, so that chunking a document without page cannot raise
raising_step(content, file_path, failing) ==
    IF failing = "chunk" /\ ingest(file_path, content).pages = <<>> THEN "none" ELSE failing

\* a wrong process_document, which returns without touching the job record
process_document_never_finishes(content, file_path, c, coll, failing, failing_batch, on_duplicate) ==
    [job |-> [status |-> "processing", filename |-> file_path], collection |-> coll]

\* process_document(job_id, file_path) on the file content at file_path:
\* the job record it leaves and the collection afterwards
process_document(content, file_path, c, coll, failing, failing_batch, on_duplicate) ==
    embed_and_store(chunks_of_file(content, file_path, c), file_path, coll,
                    raising_step(content, file_path, failing), failing_batch, on_duplicate)

\* what a task reads at file_path; nothing when the file is not there
read_file(dir, file_path) ==
    IF dir[file_path] = None THEN Scanned(<<>>, None) ELSE dir[file_path][1]

\* the state a background task leaves: its record, the collection, the history
TaskDone(task, failing, result) ==
    /\ upload_jobs' = put(upload_jobs, task.job_id, result.job)
    /\ collection' = result.collection
    /\ processed' = Append(processed,
                           [upload |-> task.upload, job |-> result.job,
                            failing |-> failing,
                            content |-> read_file(upload_dir, task.file_path)])

\* the batches in which the store can be made to fail: those add_chunks
\* sends, when the step failing is "store"
FailingBatches(chunk_list, failing) ==
    IF failing = "store" THEN 1..batch_count(chunk_list) ELSE {0}

\* the background task t runs: process_document(job_id, file_path).  When
\* the file is no longer at file_path, opening it raises in step 1; a step
\* fails only where it makes the call that raises.
\* processed keeps, in the order the tasks ran, the upload each belonged to,
\* the file it read and the record it left.
ProcessDocument(t, failing, on_duplicate) ==
    /\ c_pc = "idle"
    /\ t \in DOMAIN background_tasks
    /\ upload_dir[background_tasks[t].file_path] = None => failing = "ingest"
    /\ raising_step(read_file(upload_dir, background_tasks[t].file_path),
                    background_tasks[t].file_path, failing) = failing
    /\ \E failing_batch \in
             FailingBatches(chunks_of_file(read_file(upload_dir, background_tasks[t].file_path),
                                           background_tasks[t].file_path,
                                           [chunk_size |-> chunk_size,
                                            chunk_overlap |-> chunk_overlap]),
                            failing) :
          \E result \in {process_document(read_file(upload_dir, background_tasks[t].file_path),
                                          background_tasks[t].file_path,
                                          [chunk_size |-> chunk_size,
                                           chunk_overlap |-> chunk_overlap],
                                          collection, failing, failing_batch, on_duplicate)} :
             TaskDone(background_tasks[t], failing, result)
    /\ background_tasks' = [i \in 1..(Len(background_tasks) - 1) |->
                              IF i < t THEN background_tasks[i]
                              ELSE background_tasks[i + 1]]
    /\ UNCHANGED <<clock, upload_dir, uploads, db_pc, retrieval_vars, u_request,
                   u_response, deleted>>

RECURSIVE list_documents(_, _)
\* VectorDBAgent.list_documents: the documents of the entries of coll, each
\* with the number of its entries, in the order of their first entries
\* (documents: the list built so far)
list_documents(coll, documents) ==
    IF coll = <<>> THEN documents
    ELSE LET metadata == coll[1].metadata
             known == {d \in DOMAIN documents :
                          documents[d].document_id = metadata.document_id}
         IN  list_documents(Tail(coll),
                IF known = {}
                THEN Append(documents, [document_id |-> metadata.document_id,
                                        filename |-> metadata.filename,
                                        document_type |-> metadata.document_type,
                                        chunk_count |-> 1])
                ELSE [d \in DOMAIN documents |->
                         IF d \in known
                         THEN [documents[d] EXCEPT !.chunk_count = @ + 1]
                         ELSE documents[d]])

\* VectorDBAgent.delete_document: collection.delete(where={"document_id": ...})
delete_document(coll, document_id) ==
    SelectSeq(coll, LAMBDA e : e.metadata.document_id # document_id)

\* the steps of DELETE /documents/{document_id} that may raise
DeletionSteps == {"list", "delete", "remove"}

\* DELETE /documents/{document_id}.  The file is removed when the document
\* was listed before the deletion and the file is in the upload directory.
\* A step that raises is answered HTTP 500, what was done before it staying
\* done.  deleted keeps the ids whose deletion has returned successfully,
\* no upload of their filename having been requested since.
DeleteDocument(document_id, failing) ==
    /\ db_pc = "open"
    /\ LET documents == list_documents(collection, <<>>)
           doc_to_delete == {d \in DOMAIN documents :
                                documents[d].document_id = document_id}
           filenames == {documents[d].filename : d \in doc_to_delete}
       IN  /\ collection' = IF failing \in {"list", "delete"} THEN collection
                            ELSE delete_document(collection, document_id)
           /\ upload_dir' = IF failing = "none"
                            THEN [f \in DOMAIN upload_dir |->
                                     IF f \in filenames THEN None ELSE upload_dir[f]]
                            ELSE upload_dir
           /\ failing = "remove" => \E f \in filenames : upload_dir[f] # None
    /\ deleted' = IF failing = "none" THEN deleted \cup {document_id} ELSE deleted
    /\ UNCHANGED <<clock, upload_jobs, background_tasks, uploads, processed, u_request,
                   u_response, db_pc, retrieval_vars>>

\* VectorDBAgent.clear_collection: the collection is deleted and created
\* anew, without an entry
clear_collection(coll) == <<>>

\* a call of vector_db_agent.clear_collection, which no endpoint makes:
\* nothing has changed when delete_collection raises; create_collection is
\* taken to return.  The files and the job records stay.
ClearCollection(failing) ==
    /\ db_pc = "open"
    /\ collection' = IF failing = "delete" THEN collection ELSE clear_collection(collection)
    /\ UNCHANGED <<clock, upload_dir, upload_jobs, background_tasks, uploads, processed,
                   u_request, u_response, db_pc, retrieval_vars, deleted>>


(***************************************************************************)
(* ChunkerAgent.get_chunk_statistics and IngestionAgent.process_document,  *)
(* called on their own.                                                    *)
(***************************************************************************)
RECURSIVE gcd(_, _)
gcd(a, b) == IF b = 0 THEN a ELSE gcd(b, a % b)

\* a / b of two integers, b > 0: the quotient, kept as the fraction in
\* lowest terms (the float Python gives is the nearest double to it)
truediv(a, b) ==
    IF a = 0 THEN [num |-> 0, den |-> 1]
    ELSE [num |-> a \div gcd(a, b), den |-> b \div gcd(a, b)]

RECURSIVE sum(_, _)
\* sum(c[key] for c in chunks)
sum(chunk_list, key) ==
    IF chunk_list = <<>> THEN 0
    ELSE chunk_list[1][key] + sum(Tail(chunk_list), key)

\* a wrong get_chunk_statistics, averaging over the pages instead of the chunks
get_chunk_statistics_per_page(chunk_list) ==
    IF chunk_list = <<>> THEN <<>>
    ELSE LET pages == Cardinality({chunk_list[i].page_number : i \in DOMAIN chunk_list})
         IN  [total_chunks |-> Len(chunk_list),
              total_tokens |-> sum(chunk_list, "token_count"),
              total_chars |-> sum(chunk_list, "char_count"),
              avg_tokens_per_chunk |-> truediv(sum(chunk_list, "token_count"), pages),
              avg_chars_per_chunk |-> truediv(sum(chunk_list, "char_count"), pages)]

\* get_chunk_statistics; {} is the dictionary without keys
get_chunk_statistics(chunk_list) ==
    IF chunk_list = <<>> THEN <<>>
    ELSE [total_chunks |-> Len(chunk_list),
          total_tokens |-> sum(chunk_list, "token_count"),
          total_chars |-> sum(chunk_list, "char_count"),
          avg_tokens_per_chunk |-> truediv(sum(chunk_list, "token_count"), Len(chunk_list)),
          avg_chars_per_chunk |-> truediv(sum(chunk_list, "char_count"), Len(chunk_list))]

\* a wrong process_document, parsing a file of any extension as a document
process_any_extension(file_path, content) == ingest(file_path, content)

\* IngestionAgent.process_document(file_path) on a file holding content: the
\* document, or the ValueError raised for an extension that is neither
\* .pdf nor .docx/.doc
ingestion_process_document(file_path, content) ==
    IF file_ext(file_path) = ".pdf" THEN process_pdf(file_path, content)
    ELSE IF file_ext(file_path) \in {".docx", ".doc"} THEN process_docx(file_path, content)
    ELSE [raises |-> "ValueError",
          message |-> <<"Unsupported file format: ", file_ext(file_path)>>]

\* the files the IngestionAgent is asked for directly: the two scanned pages
\* that are uploaded, and a file with a page of text that is kept as
\* extracted and a scanned page, on which PyMuPDF raises after the first
\* page, so that pdfplumber goes through both pages again
IngestedFiles ==
    {f \in FileContents : Len(f.texts) = 2}
    \cup
    {[texts |-> <<LongText(49) \o <<"a">>, <<>>>>,
      fitz_raises_after |-> Some(1),
      ocr |-> << <<"a">>, <<"é"," ","é">> >>,
      plumber |-> <<LongText(49) \o <<"a">>, LongText(50)>>]}

InitCalls ==
    /\ statistics = None
    /\ ingested = None

\* get_chunk_statistics(chunks) on the chunks chunk_document returned for doc
GetChunkStatistics(doc) ==
    /\ c_pc = "idle"
    /\ statistics = None
    /\ LET chunk_list == chunk_document(doc, [chunk_size |-> chunk_size,
                                              chunk_overlap |-> chunk_overlap])
       IN  statistics' = Some([chunks |-> chunk_list,
                               result |-> get_chunk_statistics(chunk_list)])
    /\ UNCHANGED ingested

\* the call has returned; the agent keeps nothing of it
StatisticsIdle ==
    /\ statistics # None
    /\ statistics' = None
    /\ UNCHANGED ingested

\* process_document(file_path) called on the IngestionAgent directly
IngestionCall(file_path, content) ==
    /\ ingested = None
    /\ ingested' = Some([file_path |-> file_path,
                         result |-> ingestion_process_document(file_path, content)])
    /\ UNCHANGED statistics

\* the call has returned or raised; the agent keeps nothing of it
IngestionIdle ==
    /\ ingested # None
    /\ ingested' = None
    /\ UNCHANGED statistics


Init == InitPolicy /\ InitChunker /\ InitRetriever /\ InitQuery /\ InitUpload /\ InitCalls

NextPolicy ==
    \/ /\ p_pc = "idle"
       /\ \E answer \in Answers, retrieved_chunks \in ChunkLists, query \in Queries,
             outcome \in LLMOutcomes \cup {NoCall} :
               CheckPolicy(answer, retrieved_chunks, query, outcome)
       /\ UNCHANGED other_than_policy
    \/ ReturnPolicy /\ UNCHANGED other_than_policy

SpecPolicy == Init /\ [][NextPolicy]_vars

NextChunker ==
    \/ /\ c_pc = "new"
       /\ \E c \in ChunkerSettings : ChunkerAgentInit(c)
       /\ UNCHANGED other_than_chunker
    \/ /\ c_pc = "idle"
       /\ \E doc \in Documents : ChunkDocument(doc)
       /\ UNCHANGED other_than_chunker
    \/ ChunkPage /\ UNCHANGED other_than_chunker
    \/ ChunkReturn /\ UNCHANGED other_than_chunker
    \/ ChunkerIdle /\ UNCHANGED other_than_chunker

SpecChunker == Init /\ [][NextChunker]_vars

NextRetriever ==
    \/ /\ db_pc = "new"
       /\ \E persisted \in PersistedCollections : VectorDBAgentInit(persisted)
       /\ UNCHANGED other_than_retriever
    \/ /\ db_pc = "open" /\ q_pc = "idle"
       /\ \E query \in Queries, top_k \in TopKs, filter_by_document \in DocumentFilters,
             filter_by_type \in TypeFilters, embeds \in BOOLEAN, returns \in BOOLEAN :
             \E r \in IF RetrieveReturns(effective_top_k(top_k), embeds, returns)
                      THEN nearest_positions(collection, embed_query(query),
                               effective_top_k(top_k),
                               where_of(filter_metadata_of(filter_by_document, filter_by_type)))
                      ELSE {<<>>} :
                Retrieve(query, top_k, filter_by_document, filter_by_type, embeds,
                         returns, r)
       /\ UNCHANGED other_than_retriever
    \/ FormatAndCite /\ UNCHANGED other_than_retriever
    \/ RetrieverIdle /\ UNCHANGED other_than_retriever

SpecRetriever == Init /\ [][NextRetriever]_vars

\* the settings the service constructs its ChunkerAgent with
ServiceChunkerSettings ==
    {c \in ChunkerSettings : c.chunk_size = MaxChunkSize /\ c.chunk_overlap = 1}

NextQuery ==
    \/ /\ db_pc = "new"
       /\ \E persisted \in PersistedCollections, c \in ServiceChunkerSettings :
             ServiceStart(persisted, c)
       /\ UNCHANGED <<query_vars, policy_vars, upload_vars, call_vars>>
    \/ /\ db_pc = "open" /\ q_pc = "idle"
       /\ \E request \in QueryRequests, embeds \in BOOLEAN, returns \in BOOLEAN :
             \E r \in IF RetrieveReturns(effective_top_k(request.top_k), embeds, returns)
                      THEN nearest_positions(collection, embed_query(request.query),
                               effective_top_k(request.top_k),
                               where_of(filter_metadata_of(request.filter_by_document, None)))
                      ELSE {<<>>} :
                QueryRetrieve(request, embeds, returns, r)
       /\ UNCHANGED <<chunker_vars, upload_vars, call_vars>>
    \/ RespondNoInformation /\ UNCHANGED <<chunker_vars, upload_vars, call_vars>>
    \/ QueryFormat /\ UNCHANGED <<chunker_vars, upload_vars, call_vars>>
    \/ /\ q_pc = "formatted"
       /\ \E outcome \in AnswerOutcomes : GenerateAnswer(outcome)
       /\ UNCHANGED <<chunker_vars, upload_vars, call_vars>>
    \/ /\ q_pc = "answered"
       /\ \E outcome \in LLMOutcomes \cup {NoCall} : QueryCheckPolicy(outcome)
       /\ UNCHANGED <<chunker_vars, upload_vars, call_vars>>
    \/ /\ q_pc = "checked"
       /\ \E outcome \in FollowupOutcomes : GenerateFollowups(outcome)
       /\ UNCHANGED <<chunker_vars, upload_vars, call_vars>>
    \/ /\ q_pc = "followed"
       /\ \E logged \in BOOLEAN : Respond(logged)
       /\ UNCHANGED <<chunker_vars, upload_vars, call_vars>>
    \/ RespondError /\ UNCHANGED <<chunker_vars, upload_vars, call_vars>>
    \/ QueryIdle /\ UNCHANGED <<chunker_vars, upload_vars, call_vars>>

SpecQuery == Init /\ [][NextQuery]_vars

\* the collection the service of the uploads starts with
ServiceCollections == {<<>>}

NextUpload ==
    \/ /\ db_pc = "new"
       /\ \E persisted \in ServiceCollections, c \in ServiceChunkerSettings :
             ServiceStart(persisted, c)
       /\ UNCHANGED <<query_vars, policy_vars, upload_vars, call_vars>>
    \/ Tick /\ UNCHANGED <<policy_vars, chunker_vars, retriever_vars, query_vars, call_vars>>
    \/ /\ db_pc = "open" /\ Len(uploads) < MaxUploads
       /\ \E filename \in UploadNames, content \in FileContents, save \in SaveOutcomes :
             \E written \in Written(content, save) :
                UploadDocument(filename, content, save, written)
       /\ UNCHANGED <<policy_vars, chunker_vars, retriever_vars, query_vars, call_vars>>
    \/ \E t \in DOMAIN background_tasks, failing \in ProcessingSteps \cup {"none"},
          on_duplicate \in DuplicatePolicies :
          /\ ProcessDocument(t, failing, on_duplicate)
          /\ UNCHANGED <<policy_vars, chunker_vars, query_vars, call_vars>>

SpecUpload == Init /\ [][NextUpload]_vars

\* the requests made of the service beside uploads
ServiceRequests ==
    {request \in QueryRequests :
        /\ request.query = <<"p","a","r","k","i","n","g"," ","r","u","l","e","s">>
        /\ request.top_k \in {None, Some(0)}
        /\ request.filter_by_document = None}

\* the service as a whole: uploads, background tasks and queries, a handler
\* or task running only when no /query request is being handled
NextService ==
    \/ /\ db_pc = "new"
       /\ \E persisted \in ServiceCollections, c \in ServiceChunkerSettings :
             ServiceStart(persisted, c)
       /\ UNCHANGED <<query_vars, policy_vars, upload_vars, call_vars>>
    \/ /\ q_pc = "idle"
       /\ Tick
       /\ UNCHANGED <<policy_vars, chunker_vars, retriever_vars, query_vars, call_vars>>
    \/ /\ db_pc = "open" /\ q_pc = "idle" /\ Len(uploads) < MaxUploads
       /\ \E filename \in {"handbook.pdf", "notes.txt"},
             content \in {f \in FileContents : Len(f.texts) = 2}, save \in SaveOutcomes :
             \E written \in Written(content, save) :
                UploadDocument(filename, content, save, written)
       /\ UNCHANGED <<policy_vars, chunker_vars, retriever_vars, query_vars, call_vars>>
    \/ /\ q_pc = "idle"
       /\ \E t \in DOMAIN background_tasks, failing \in ProcessingSteps \cup {"none"},
             on_duplicate \in DuplicatePolicies :
             ProcessDocument(t, failing, on_duplicate)
       /\ UNCHANGED <<policy_vars, chunker_vars, query_vars, call_vars>>
    \/ /\ db_pc = "open" /\ q_pc = "idle"
       /\ \E request \in ServiceRequests, embeds \in BOOLEAN, returns \in BOOLEAN :
             \E r \in IF RetrieveReturns(effective_top_k(request.top_k), embeds, returns)
                      THEN nearest_positions(collection, embed_query(request.query),
                               effective_top_k(request.top_k),
                               where_of(filter_metadata_of(request.filter_by_document, None)))
                      ELSE {<<>>} :
                QueryRetrieve(request, embeds, returns, r)
       /\ UNCHANGED <<chunker_vars, upload_vars, call_vars>>
    \/ RespondNoInformation /\ UNCHANGED <<chunker_vars, upload_vars, call_vars>>
    \/ QueryFormat /\ UNCHANGED <<chunker_vars, upload_vars, call_vars>>
    \/ /\ q_pc = "formatted"
       /\ \E outcome \in {o \in AnswerOutcomes : o.raises} : GenerateAnswer(outcome)
       /\ UNCHANGED <<chunker_vars, upload_vars, call_vars>>
    \/ /\ q_pc = "answered"
       /\ \E outcome \in {o \in LLMOutcomes : o.raises} \cup {NoCall} :
             QueryCheckPolicy(outcome)
       /\ UNCHANGED <<chunker_vars, upload_vars, call_vars>>
    \/ /\ q_pc = "checked"
       /\ \E outcome \in {o \in FollowupOutcomes : o.raises} : GenerateFollowups(outcome)
       /\ UNCHANGED <<chunker_vars, upload_vars, call_vars>>
    \/ /\ q_pc = "followed"
       /\ Respond(TRUE)
       /\ UNCHANGED <<chunker_vars, upload_vars, call_vars>>
    \/ RespondError /\ UNCHANGED <<chunker_vars, upload_vars, call_vars>>
    \/ QueryIdle /\ UNCHANGED <<chunker_vars, upload_vars, call_vars>>

SpecService == Init /\ [][NextService]_vars

\* a ChunkerAgent of any settings asked for the statistics of its chunks
NextStatistics ==
    \/ /\ c_pc = "new"
       /\ \E c \in ChunkerSettings : ChunkerAgentInit(c)
       /\ UNCHANGED other_than_chunker
    \/ /\ c_pc = "idle" /\ statistics = None
       /\ \E doc \in Documents : GetChunkStatistics(doc)
       /\ UNCHANGED <<policy_vars, chunker_vars, retriever_vars, query_vars, upload_vars>>
    \/ /\ StatisticsIdle
       /\ UNCHANGED <<policy_vars, chunker_vars, retriever_vars, query_vars, upload_vars>>

SpecStatistics == Init /\ [][NextStatistics]_vars

\* the event loop runs the background task of the u-th accepted upload
RunTaskOf(u) ==
    \E t \in DOMAIN background_tasks, failing \in ProcessingSteps \cup {"none"},
       on_duplicate \in DuplicatePolicies :
       /\ background_tasks[t].upload = u
       /\ ProcessDocument(t, failing, on_duplicate)
       /\ UNCHANGED <<policy_vars, chunker_vars, query_vars, call_vars>>

\* uploads of one document, accepted or rejected, and their tasks
NextUploadFair ==
    \/ /\ db_pc = "new"
       /\ \E persisted \in ServiceCollections, c \in ServiceChunkerSettings :
             ServiceStart(persisted, c)
       /\ UNCHANGED <<query_vars, policy_vars, upload_vars, call_vars>>
    \/ Tick /\ UNCHANGED <<policy_vars, chunker_vars, retriever_vars, query_vars, call_vars>>
    \/ /\ db_pc = "open" /\ Len(uploads) < MaxUploads
       /\ \E filename \in {"handbook.pdf", "notes.txt"},
             content \in {f \in FileContents : Len(f.texts) = 2}, save \in SaveOutcomes :
             \E written \in Written(content, save) :
                UploadDocument(filename, content, save, written)
       /\ UNCHANGED <<policy_vars, chunker_vars, retriever_vars, query_vars, call_vars>>
    \/ \E u \in 1..MaxUploads : RunTaskOf(u)

\* ... every task added being run by the event loop after the response of
\* its request is sent
SpecUploadFair ==
    /\ Init
    /\ [][NextUploadFair]_vars
    /\ \A u \in 1..MaxUploads : WF_vars(RunTaskOf(u))

\* uploads of a document and of a text file, their tasks, and the
\* IngestionAgent asked for a file directly
NextIngestion ==
    \/ NextUploadFair
    \/ /\ \E file_path \in UploadNames, content \in IngestedFiles :
             IngestionCall(file_path, content)
       /\ UNCHANGED <<policy_vars, chunker_vars, retriever_vars, query_vars, upload_vars>>
    \/ /\ IngestionIdle
       /\ UNCHANGED <<policy_vars, chunker_vars, retriever_vars, query_vars, upload_vars>>

SpecIngestion == Init /\ [][NextIngestion]_vars

\* the document ids of the model's files
DocumentIds == {generate_document_id(f) : f \in Filenames}

\* uploads, their tasks, deletions of documents, and the collection cleared
NextDocuments ==
    \/ NextUploadFair
    \/ /\ \E document_id \in DocumentIds, failing \in DeletionSteps \cup {"none"} :
             DeleteDocument(document_id, failing)
       /\ UNCHANGED <<policy_vars, chunker_vars, query_vars, call_vars>>
    \/ /\ \E failing \in {"delete", "none"} : ClearCollection(failing)
       /\ UNCHANGED <<policy_vars, chunker_vars, query_vars, call_vars>>

SpecDocuments == Init /\ [][NextDocuments]_vars

(***************************************************************************)
(* What the claims speak of, stated apart from the code's own search:      *)
(* occurrence of a phrase as a case-folded substring, the words of a text  *)
(* (its maximal runs of word characters), and the penalty sum.             *)
(***************************************************************************)
\* c and d are the same character up to case
SameFolded(c, d) ==
    \/ c = d
    \/ \E i \in 1..26 : {c, d} = {UpperCase[i], LowerCase[i]}

\* phrase occurs in text, case-insensitively
Occurs(phrase, text) ==
    \E i \in 1..(Len(text) - Len(phrase) + 1) :
        \A j \in 1..Len(phrase) : SameFolded(text[i + j - 1], phrase[j])

\* the words of text, lower-cased: the maximal runs of word characters
WordStarts(text) ==
    {i \in 1..Len(text) : text[i] \in WordChars /\ (i = 1 \/ text[i - 1] \notin WordChars)}

WordEnd(text, i) ==
    CHOOSE j \in i..Len(text) :
        /\ \A k \in i..j : text[k] \in WordChars
        /\ (j = Len(text) \/ text[j + 1] \notin WordChars)

Words(text) == {lower(SubSeq(text, i, WordEnd(text, i))) : i \in WordStarts(text)}

HighWords == {<<"m","u","s","t">>, <<"s","h","a","l","l">>, <<"w","i","l","l">>,
              <<"r","e","q","u","i","r","e","d">>, <<"m","a","n","d","a","t","o","r","y">>}
LowWords == {<<"m","a","y">>, <<"m","i","g","h","t">>, <<"c","o","u","l","d">>}
MediumWords == {<<"s","h","o","u","l","d">>, <<"r","e","c","o","m","m","e","n","d","e","d">>}

\* per answer of the model: the ambiguous phrases and legal terms that occur
\* in it, and its words
PhrasesIn == [a \in Answers |-> {ph \in Range(ambiguous_phrases) : Occurs(ph, a)}]
LegalTermsIn == [a \in Answers \cup Queries |-> {t \in Range(legal_indicators) : Occurs(t, a)}]
WordsIn == [a \in Answers |-> Words(a)]

Clamp(x) == IF x < 0 THEN 0 ELSE IF x > 100 THEN 100 ELSE x

ModalPenalty(certainty) ==
    IF certainty = "low" THEN 20 ELSE IF certainty = "medium" THEN 10 ELSE 0

\* the distinct filenames of a chunk list
DistinctFilenames(chunk_list) ==
    {f \in Filenames : \E i \in DOMAIN chunk_list : chunk_list[i].metadata.filename = f}

Done == p_pc = "done"

(***************************************************************************)
(* Claims about check_policy, under SpecPolicy                             *)
(***************************************************************************)
\* C1: after every call of check_policy, in either contradiction mode and
\* however many penalties apply, confidence_score lies in [0.0, 1.0].
C1_ConfidenceInRange ==
    Done => report.confidence_score \in 0..100

\* C1 witness: all 8 ambiguous phrases, low certainty, a contradiction and
\* the legal flag together (penalties of 1.9), and the score is 0.0.
C1_Witness ==
    /\ Done
    /\ report.ambiguity_check.count = 8
    /\ report.modal_verb_analysis.overall_certainty = "low"
    /\ Get(report.contradiction_check, "has_contradictions")
    /\ report.legal_advice_check.is_legal_advice
    /\ report.confidence_score = 0

\* C2: confidence_score = clamp(1.0 - 0.15*n - m - c - l), n the number of
\* distinct ambiguous phrases occurring in the answer, m by overall certainty
\* (0.2 low, 0.1 medium, else 0), c = 0.3 iff has_contradictions, l = 0.2 iff
\* the legal flag; "must" with a single source scores 1.0, "may" alone 0.8,
\* and "may", "unclear" and one legal term 0.45.
C2_ConfidenceFormula ==
    Done =>
      /\ report.confidence_score =
             Clamp(100 - 15 * Cardinality(PhrasesIn[p_answer])
                       - ModalPenalty(report.modal_verb_analysis.overall_certainty)
                       - (IF Get(report.contradiction_check, "has_contradictions") THEN 30 ELSE 0)
                       - (IF report.legal_advice_check.is_legal_advice THEN 20 ELSE 0))
      /\ (p_answer = <<"M","u","s","t">> /\ Len(p_chunks) = 1)
            => report.confidence_score = 100
      /\ (p_answer = <<"m","a","y">> /\ ~Get(report.contradiction_check, "has_contradictions"))
            => report.confidence_score = 80
      /\ (/\ p_answer = <<"m","a","y"," ","u","n","c","l","e","a","r"," ","L","a","w","s","u","i","t">>
          /\ ~Get(report.contradiction_check, "has_contradictions"))
            => report.confidence_score = 45

\* C2 witness: the answer "may unclear Lawsuit" without a contradiction,
\* scored 0.45.
C2_Witness ==
    /\ Done
    /\ p_answer = <<"m","a","y"," ","u","n","c","l","e","a","r"," ","L","a","w","s","u","i","t">>
    /\ ~Get(report.contradiction_check, "has_contradictions")
    /\ report.confidence_score = 45

\* C3: overall_certainty is "high" if a high-tier word occurs in the answer,
\* else "low" if a low-tier word occurs, else "medium" if a medium-tier word
\* occurs, else "neutral"; an answer with both "must" and "may" is "high" and
\* gets no modal penalty.
C3_ModalPriority ==
    Done =>
      LET words == WordsIn[p_answer]
          certainty == report.modal_verb_analysis.overall_certainty
      IN  /\ certainty =
                IF words \cap HighWords # {} THEN "high"
                ELSE IF words \cap LowWords # {} THEN "low"
                ELSE IF words \cap MediumWords # {} THEN "medium"
                ELSE "neutral"
          /\ ({<<"m","u","s","t">>, <<"m","a","y">>} \subseteq words) =>
                /\ certainty = "high"
                /\ report.confidence_score =
                       Clamp(100 - 15 * report.ambiguity_check.count
                                 - (IF Get(report.contradiction_check, "has_contradictions")
                                    THEN 30 ELSE 0)
                                 - (IF report.legal_advice_check.is_legal_advice THEN 20 ELSE 0))

\* C3 witness: one "must" beside two "may", reported "high".
C3_Witness ==
    /\ Done
    /\ p_answer = <<"M","u","s","t"," ","m","a","y"," ","m","a","y">>
    /\ report.modal_verb_analysis.modal_verbs[<<"m","a","y">>].count = 2
    /\ report.modal_verb_analysis.overall_certainty = "high"

\* C4: the legal-advice flag is true iff a legal term occurs in the answer
\* (case-insensitive substring); legal terms of the query are reported but
\* two calls that differ only in the query give the same confidence_score,
\* warnings and recommendations.
C4_LegalFlagFromAnswerOnly ==
    Done =>
      /\ report.legal_advice_check.is_legal_advice = (LegalTermsIn[p_answer] # {})
      /\ Range(report.legal_advice_check.legal_terms_in_query) = LegalTermsIn[p_query]
      /\ \A other \in Queries :
            LET r == check_policy(p_answer, p_chunks, other, llm_outcome)
            IN  /\ r.confidence_score = report.confidence_score
                /\ r.warnings = report.warnings
                /\ r.recommendations = report.recommendations

\* C4 witness: a legal term in the query only; it is reported and the flag
\* is not set.
C4_Witness ==
    /\ Done
    /\ p_answer = <<"M","u","s","t">>
    /\ report.legal_advice_check.legal_terms_in_query # <<>>
    /\ report.legal_advice_check.legal_terms_in_answer = <<>>
    /\ ~report.legal_advice_check.is_legal_advice
    /\ report.confidence_score = 100

\* the answer with every repeat of a token dropped: the tokens it is joined
\* from, each kept once
TokensOf == [a \in Answers |->
    CHOOSE ix \in TokenSelections(MaxAnswerTokens) :
        a = JoinWith([i \in DOMAIN ix |-> AnswerTokens[ix[i]]], <<" ">>)]

Unrepeated(a) ==
    LET ix == TokensOf[a]
        kept == SelectSeq([i \in DOMAIN ix |-> i], LAMBDA i : i = 1 \/ ix[i] # ix[i - 1])
    IN  JoinWith([k \in DOMAIN kept |-> AnswerTokens[ix[kept[k]]]], <<" ">>)

\* C5: the ambiguity count is the number of distinct vocabulary phrases that
\* occur in the answer (case-insensitive), each listed once; repeating a
\* phrase leaves count, the phrase list and the score unchanged; and
\* has_ambiguity is true iff count > 0.
C5_DistinctPhraseCount ==
    Done =>
      LET amb == report.ambiguity_check
      IN  /\ amb.count = Cardinality(PhrasesIn[p_answer])
          /\ Range(amb.ambiguous_phrases) = PhrasesIn[p_answer]
          /\ Len(amb.ambiguous_phrases) = Cardinality(PhrasesIn[p_answer])
          /\ amb.has_ambiguity = (amb.count > 0)
          /\ LET once == check_policy(Unrepeated(p_answer), p_chunks, p_query, llm_outcome)
             IN  /\ once.ambiguity_check = amb
                 /\ once.confidence_score = report.confidence_score

\* C5 witness: "unclear" three times over, counted once.
C5_Witness ==
    /\ Done
    /\ p_answer = <<"u","n","c","l","e","a","r"," ","u","n","c","l","e","a","r"," ",
                    "u","n","c","l","e","a","r">>
    /\ report.ambiguity_check.count = 1
    /\ report.ambiguity_check.has_ambiguity

\* C6: the heuristic check never reports a contradiction; for two or more
\* chunks source_count is the number of distinct filenames, multiple_sources
\* is source_count > 1 and confidence is 0.8 if source_count > 1 else 1.0.
C6_HeuristicCheck ==
    Done =>
      LET h == check_contradictions_heuristic(p_chunks)
          n == Cardinality(DistinctFilenames(p_chunks))
      IN  /\ h.has_contradictions = FALSE
          /\ ~llm_called => report.contradiction_check = h
          /\ Len(p_chunks) >= 2 =>
                /\ h.source_count = n
                /\ h.multiple_sources = (n > 1)
                /\ h.confidence = IF n > 1 THEN 80 ELSE 100

\* C6 witness: chunks of 2 distinct filenames, checked heuristically:
\* multiple_sources, source_count 2, confidence 0.8.
C6_Witness ==
    /\ Done
    /\ ~llm_called
    /\ Cardinality(DistinctFilenames(p_chunks)) = 2
    /\ report.contradiction_check.multiple_sources
    /\ report.contradiction_check.source_count = 2
    /\ report.contradiction_check.confidence = 80
    /\ ~report.contradiction_check.has_contradictions

\* the five conditions in the order of the claim, each with its warning
WarningRules(r) == <<
    [fires |-> r.ambiguity_check.has_ambiguity, text |-> W_ambiguity],
    [fires |-> r.modal_verb_analysis.overall_certainty = "low", text |-> W_uncertain],
    [fires |-> Get(r.contradiction_check, "has_contradictions"), text |-> W_contradiction],
    [fires |-> r.legal_advice_check.is_legal_advice, text |-> W_legal],
    [fires |-> r.confidence_score < 50, text |-> W_low_confidence] >>

\* C7: warnings holds exactly one entry per triggered condition, in the order
\* ambiguity, low certainty, contradictions, legal advice, low confidence;
\* the low-confidence warning is there iff confidence_score < 0.5 and is
\* then last; warnings and recommendations are always lists.
C7_WarningsInOrder ==
    Done =>
      LET fired == SelectSeq(WarningRules(report), LAMBDA rule : rule.fires)
          w == report.warnings
      IN  /\ w = [i \in 1..Len(fired) |-> fired[i].text]
          /\ (\E i \in DOMAIN w : w[i] = W_low_confidence) = (report.confidence_score < 50)
          /\ report.confidence_score < 50 => w[Len(w)] = W_low_confidence
          /\ DOMAIN w = 1..Len(w)
          /\ DOMAIN report.recommendations = 1..Len(report.recommendations)

\* C7 witness: the low-confidence warning last, after some but not all of
\* the earlier ones.
C7_Witness ==
    /\ Done
    /\ report.confidence_score < 50
    /\ Len(report.warnings) = 3
    /\ report.warnings[1] = W_ambiguity
    /\ report.warnings[2] = W_legal
    /\ report.warnings[3] = W_low_confidence

\* C8 (as claimed; the code breaks it): whenever the retrieved chunks come
\* from more than one distinct filename, recommendations holds the
\* review-all-sources message with the number of distinct filenames, in
\* either contradiction mode.
C8_ReviewSourcesAlways ==
    (Done /\ Cardinality(DistinctFilenames(p_chunks)) > 1) =>
        \E i \in DOMAIN report.recommendations :
            report.recommendations[i] =
                R_review_sources(Cardinality(DistinctFilenames(p_chunks)))

(***************************************************************************)
(* chunk_document: the pages gone through so far and what was emitted for  *)
(* each of them.                                                           *)
(***************************************************************************)
InChunkDocument == c_pc \in {"loop", "done"}

ChunkerDone == c_pc = "done"

\* the pages the loop has gone through, by position in document_data['pages']
PagesDone == 1..page_idx

\* the positions in chunks of the chunks that carry the page's number
ChunksOfPage(p) ==
    {i \in DOMAIN chunks : chunks[i].page_number = document_data.pages[p].page_number}

HasText(text) == \E i \in DOMAIN text : text[i] \notin Whitespace

\* text occurs in whole as a run of consecutive characters of page_text
DrawnFrom(text, page_text) ==
    \E i \in 1..(Len(page_text) - Len(text) + 1) :
        SubSeq(page_text, i, i + Len(text) - 1) = text

\* what chunk_document returns for the one-page document made of the page
AloneChunks(page) ==
    chunk_text(page.text, page.page_number, document_data.filename,
               document_data.document_type,
               [chunk_size |-> chunk_size, chunk_overlap |-> chunk_overlap])

\* C9: in what chunk_document has emitted for a document, the first chunk_id
\* is 0 and each next one is the one before plus 1, whether or not a page
\* boundary lies between the two, so no two chunks share a chunk_id; every chunk
\* carries the same document_id, the one of the document's filename; and no two
\* chunks share the storage id "<document_id>_<chunk_id>"
C9_ChunkIdsCountAcrossPages ==
    InChunkDocument =>
        /\ chunks # <<>> => chunks[1].chunk_id = 0
        /\ \A i \in 1..(Len(chunks) - 1) : chunks[i + 1].chunk_id = chunks[i].chunk_id + 1
        /\ chunk_id = Len(chunks)
        /\ \A i, j \in DOMAIN chunks :
              /\ chunks[i].document_id = chunks[j].document_id
              /\ chunks[i].document_id = generate_document_id(document_data.filename)
              /\ i # j => /\ chunks[i].chunk_id # chunks[j].chunk_id
                          /\ storage_id(chunks[i]) # storage_id(chunks[j])

\* a returned list in which a page of two chunks or more is followed by a chunk
\* of the next page
C9_Witness ==
    /\ ChunkerDone
    /\ \E i \in 1..(Len(chunks) - 1) :
          /\ chunks[i].page_number = 1
          /\ chunks[i + 1].page_number = 2
          /\ chunks[i + 1].chunk_id >= 2

\* what C10 says of every page alike: each chunk carries the number of exactly
\* one page and its text is a run of that page's text; the chunks of a page are
\* the ones the page yields alone; and the chunks come in page order
PageByPage ==
    /\ \A i \in DOMAIN chunks :
          \E p \in PagesDone :
              /\ i \in ChunksOfPage(p)
              /\ \A q \in PagesDone : i \in ChunksOfPage(q) => q = p
              /\ DrawnFrom(chunks[i].text, document_data.pages[p].text)
    /\ \A p \in PagesDone :
          LET alone == AloneChunks(document_data.pages[p])
          IN  /\ Cardinality(ChunksOfPage(p)) = Len(alone)
              /\ \A i \in ChunksOfPage(p) :
                    \E k \in DOMAIN alone : /\ chunks[i].text = alone[k].text
                                            /\ chunks[i].start_token = alone[k].start_token
    /\ \A i, j \in DOMAIN chunks : i < j => chunks[i].page_number <= chunks[j].page_number

\* C10, as stated: page by page, and every page whose text is not empty yields
\* at least one chunk, and a page whose text is empty yields none
C10_EveryNonEmptyPageChunked ==
    InChunkDocument =>
        /\ PageByPage
        /\ \A p \in PagesDone :
              IF document_data.pages[p].text # <<>>
              THEN ChunksOfPage(p) # {}
              ELSE ChunksOfPage(p) = {}

\* the page texts of the documents of the model
DocumentPageTexts ==
    UNION {{d.pages[i].text : i \in DOMAIN d.pages} : d \in Documents}

\* split_text of each of them by each splitter, evaluated once (@@ makes the
\* function an explicit table)
SplitTexts ==
    [text \in DocumentPageTexts, c \in ChunkerSettings |-> split_text(text, c)] @@ <<>>

\* the chunk texts the agent's splitter gives for the page taken alone
AloneTexts(page) ==
    SplitTexts[page.text, [chunk_size |-> chunk_size, chunk_overlap |-> chunk_overlap]]

RECURSIVE ChunksBefore(_)
\* the number of chunks the entries of document_data['pages'] before the
\* p-th yield, each taken alone
ChunksBefore(p) ==
    IF p = 1 THEN 0
    ELSE ChunksBefore(p - 1) + Len(AloneTexts(document_data.pages[p - 1]))

\* the positions in chunks of the chunks of the p-th entry of the page list,
\* the chunks coming in the order of the entries
ChunksOfEntry(p) ==
    {ChunksBefore(p) + k : k \in DOMAIN AloneTexts(document_data.pages[p])}

\* what holds of every entry of the page list alike: each chunk is of exactly
\* one entry, carries that entry's page number and its text is a run of that
\* entry's text; the chunks of an entry are the ones it yields alone, each
\* with the start_token of its place among them; and the chunks come in the
\* order of the entries
EntryByEntry ==
    /\ \A i \in DOMAIN chunks :
          Cardinality({p \in PagesDone : i \in ChunksOfEntry(p)}) = 1
    /\ \A p \in PagesDone :
          /\ ChunksOfEntry(p) \subseteq DOMAIN chunks
          /\ \A k \in DOMAIN AloneTexts(document_data.pages[p]) :
                /\ chunks[ChunksBefore(p) + k].page_number
                      = document_data.pages[p].page_number
                /\ DrawnFrom(chunks[ChunksBefore(p) + k].text, document_data.pages[p].text)
                /\ chunks[ChunksBefore(p) + k].text
                      = AloneTexts(document_data.pages[p])[k]
                /\ chunks[ChunksBefore(p) + k].start_token
                      = (k - 1) * (chunk_size - chunk_overlap)
    /\ \A p, q \in PagesDone :
          p < q => \A i \in ChunksOfEntry(p), j \in ChunksOfEntry(q) : i < j

\* C10, amended: entry by entry of the page list, two entries carrying the
\* same page number when a PDF was read twice; every page whose text holds a
\* character that is not whitespace yields at least one chunk; a page whose
\* text is empty yields none; a page whose text is all whitespace yields none
\* with a chunk_size of 2 or more, and with chunk_size 1 a chunk of each of
\* its characters
C10_EveryPageWithTextChunked ==
    InChunkDocument =>
        /\ EntryByEntry
        /\ \A p \in PagesDone :
              /\ HasText(document_data.pages[p].text) => ChunksOfEntry(p) # {}
              /\ document_data.pages[p].text = <<>> => ChunksOfEntry(p) = {}
              /\ (~HasText(document_data.pages[p].text) /\ chunk_size >= 2) =>
                    ChunksOfEntry(p) = {}
              /\ (~HasText(document_data.pages[p].text) /\ chunk_size = 1) =>
                    /\ Cardinality(ChunksOfEntry(p)) = Len(document_data.pages[p].text)
                    /\ \A i \in ChunksOfEntry(p) : ~HasText(chunks[i].text)

\* a returned list for a PDF read twice by a splitter of chunk_size 2 or
\* more: two entries carry the same page number and each has its chunks,
\* and a page of one space has none
C10_Witness ==
    /\ ChunkerDone
    /\ chunk_size >= 2
    /\ \E p, q, r \in PagesDone :
          /\ p < q
          /\ document_data.pages[p].page_number = document_data.pages[q].page_number
          /\ HasText(document_data.pages[p].text)
          /\ ChunksOfEntry(p) # {}
          /\ ChunksOfEntry(q) # {}
          /\ ChunksOfEntry(p) \cap ChunksOfEntry(q) = {}
          /\ document_data.pages[r].text = <<" ">>
          /\ ChunksOfEntry(r) = {}

(***************************************************************************)
(* What the claims on retrieval speak of                                   *)
(***************************************************************************)
\* a retrieve call has returned its chunks
Retrieved == q_pc \in {"retrieved", "formatted"}

\* the entries of the collection that satisfy the where filter of the call
Matches == {i \in DOMAIN collection : where_matches(collection[i], store_call.where)}

\* the distance of entry i of the collection from the query of the call
DistanceOf(i) == distance_between(embed_query(q_args.query), collection[i].embedding)

\* the smaller of two numbers
Min(a, b) == IF a < b THEN a ELSE b

\* C11: retrieve returns exactly the chunks the store returned, in the
\* store's order, which ascends in distance, each with similarity_score
\* 1 - distance (100 - distance in hundredths); the chunks are the nearest
\* matching entries of the collection, none dropped, added or reordered.
C11_RetrieveKeepsStoreResults ==
    Retrieved =>
        /\ Len(q_chunks) = Len(store_chunks)
        /\ \A i \in DOMAIN q_chunks :
              /\ q_chunks[i].id = store_chunks[i].id
              /\ q_chunks[i].text = store_chunks[i].text
              /\ q_chunks[i].metadata = store_chunks[i].metadata
              /\ q_chunks[i].distance = store_chunks[i].distance
              /\ q_chunks[i].similarity_score = 100 - store_chunks[i].distance
        /\ \A i, j \in DOMAIN q_chunks :
              i < j => q_chunks[i].distance <= q_chunks[j].distance
        /\ Len(q_chunks) = Min(store_call.n_results, Cardinality(Matches))
        /\ \A i \in DOMAIN q_chunks :
              \E e \in Matches : /\ collection[e].id = q_chunks[i].id
                                 /\ collection[e].document = q_chunks[i].text
                                 /\ DistanceOf(e) = q_chunks[i].distance
        /\ \A i, j \in DOMAIN q_chunks : i # j => q_chunks[i].id # q_chunks[j].id

\* a retrieval that returned two chunks at different distances
C11_Witness ==
    /\ q_pc = "retrieved"
    /\ Len(q_chunks) >= 2
    /\ q_chunks[1].distance < q_chunks[2].distance
    /\ q_chunks[1].similarity_score > q_chunks[2].similarity_score

\* an optional argument was given a value (anything but None)
Given(arg) == arg # None

\* an optional argument was given a value that is not the empty string
GivenNonEmpty(arg) == arg # None /\ arg[1] # ""

\* the where filter handed to the store is the conjunction of exactly the
\* filters of the call that count as supplied: none, no filter at all
WhereIsExactly(document_supplied, type_supplied) ==
    IF ~document_supplied /\ ~type_supplied
    THEN store_call.where = None
    ELSE /\ store_call.where # None
         /\ DOMAIN store_call.where[1] =
                {k \in {"filename"} : document_supplied}
                \cup {k \in {"document_type"} : type_supplied}
         /\ document_supplied =>
                store_call.where[1]["filename"] = q_args.filter_by_document[1]
         /\ type_supplied =>
                store_call.where[1]["document_type"] = q_args.filter_by_type[1]

\* the top_k handed to the store is 7 exactly when the caller passed none
TopKIsCallers ==
    /\ q_args.top_k = None => store_call.n_results = 7
    /\ q_args.top_k # None => store_call.n_results = q_args.top_k[1]

\* C12 as stated: top_k is 7 exactly when the caller passes none, and the
\* filter handed to the store is the conjunction of exactly the filters the
\* caller passed, whatever their values.
C12_FiltersPassedAsGiven ==
    store_call.called =>
        /\ TopKIsCallers
        /\ WhereIsExactly(Given(q_args.filter_by_document), Given(q_args.filter_by_type))

\* C12: the top_k handed to the store is 7 when the caller passes no top_k
\* and the caller's value otherwise (0 included); the filter handed to the
\* store is the conjunction of exactly the filters passed with a non-empty
\* value, values unchanged, and no filter when there is none (a filter
\* passed as the empty string is dropped); retrieve returns as many chunks
\* as the store gave it.
C12_NonEmptyFiltersPassedAsGiven ==
    store_call.called =>
        /\ TopKIsCallers
        /\ WhereIsExactly(GivenNonEmpty(q_args.filter_by_document),
                          GivenNonEmpty(q_args.filter_by_type))
        /\ Len(q_chunks) = Len(store_chunks)

\* a call without top_k, with a filename filter and an empty type filter
C12_Witness ==
    /\ q_pc = "retrieved"
    /\ q_args.top_k = None
    /\ store_call.n_results = 7
    /\ q_args.filter_by_document = Some("handbook.pdf")
    /\ q_args.filter_by_type = Some("")
    /\ store_call.where = Some([filename |-> "handbook.pdf"])
    /\ Len(q_chunks) >= 2

(***************************************************************************)
(* What the claims on the context and the citations speak of               *)
(***************************************************************************)
\* the positions of the newlines of a text
Newlines(text) == {i \in DOMAIN text : text[i] = "\n"}

\* the position of the k-th newline of a text
NewlineAt(text, k) ==
    CHOOSE i \in Newlines(text) : Cardinality({j \in Newlines(text) : j < i}) = k - 1

\* the lines of a text: what stands between its newlines
Lines(text) ==
    LET n == Cardinality(Newlines(text))
    IN  [k \in 1..(n + 1) |->
            SubSeq(text, IF k = 1 THEN 1 ELSE NewlineAt(text, k - 1) + 1,
                         IF k = n + 1 THEN Len(text) ELSE NewlineAt(text, k) - 1)]

\* a line opens as a source tag does
IsTagLine(line) == MatchAt(<<"[","D","O","C",":"," ">>, line, 1)

\* the source tag of a chunk as the claim writes it
TagOf(chunk) ==
    <<"[","D","O","C",":"," ">> \o filename_text[chunk.metadata.filename]
    \o <<" ","|"," ","p","a","g","e",":"," ">> \o str(chunk.metadata.page_number)
    \o <<" ","|"," ","p","a","r","a","g","r","a","p","h",":"," ">>
    \o str(chunk.metadata.chunk_id) \o <<"]">>

\* format_context and get_citations have returned for the chunks retrieved
Formatted == q_pc = "formatted"

\* C14: the context holds, for chunk i of the retrieved list, the tag
\* "[DOC: <filename> | page: <page_number> | paragraph: <chunk_id>]" on a
\* line of its own followed by the chunk's text on the next line, in
\* retrieval order and with one tag per chunk; get_citations returns as
\* many citations as there are chunks; and two calls on identical chunk
\* sequences give identical output.
C14_ContextTagsEachChunk ==
    Formatted =>
        LET lines == Lines(q_context)
            n == Len(q_chunks)
        IN  /\ n = 0 => q_context = <<>>
            /\ n > 0 => Len(lines) = 3 * n
            /\ \A i \in 1..n :
                  /\ lines[3 * i - 2] = TagOf(q_chunks[i])
                  /\ lines[3 * i - 1] = q_chunks[i].text
                  /\ lines[3 * i] = <<>>
            /\ Cardinality({k \in DOMAIN lines : IsTagLine(lines[k])}) = n
            /\ Len(q_citations) = n
            /\ q_chunks = q_last.chunks =>
                  q_context = q_last.context /\ q_citations = q_last.citations

\* a context of two chunks or more whose tags differ, formatted a second
\* time for the same chunks
C14_Witness ==
    /\ Formatted
    /\ Len(q_chunks) >= 2
    /\ TagOf(q_chunks[1]) # TagOf(q_chunks[2])
    /\ q_chunks[1].metadata.chunk_id # 1
    /\ q_last.chunks = q_chunks

\* C15: citation i carries the filename, page_number and chunk_id of chunk
\* i, in order and one per chunk; its snippet is the whole text when the
\* text has at most 200 characters and otherwise the first 200 characters
\* followed by "..." once, so it never exceeds 203 characters, and a text
\* of exactly 200 characters is returned whole, without ellipsis.
C15_CitationsMatchChunks ==
    Formatted =>
        /\ Len(q_citations) = Len(q_chunks)
        /\ \A i \in DOMAIN q_chunks :
              LET text == q_chunks[i].text
                  snippet == q_citations[i].text_snippet
              IN  /\ q_citations[i].filename = q_chunks[i].metadata.filename
                  /\ q_citations[i].page_number = q_chunks[i].metadata.page_number
                  /\ q_citations[i].chunk_id = q_chunks[i].metadata.chunk_id
                  /\ DOMAIN q_citations[i] =
                        {"filename", "page_number", "chunk_id", "text_snippet"}
                  /\ Len(text) <= 200 => snippet = text
                  /\ Len(text) > 200 =>
                        /\ Len(snippet) = 203
                        /\ SubSeq(snippet, 1, 200) = SubSeq(text, 1, 200)
                        /\ SubSeq(snippet, 201, 203) = <<".", ".", ".">>
                  /\ Len(snippet) <= 203

\* citations of a text of exactly 200 characters and of a longer one
C15_Witness ==
    /\ Formatted
    /\ \E i, j \in DOMAIN q_chunks :
          /\ Len(q_chunks[i].text) = 200
          /\ q_citations[i].text_snippet = q_chunks[i].text
          /\ Len(q_chunks[j].text) = 201
          /\ Len(q_citations[j].text_snippet) = 203

(***************************************************************************)
(* What the claims on the /query pipeline speak of                         *)
(***************************************************************************)
\* the /query request has its response
Responded == q_pc = "responded"

\* retrieval has just returned, with no chunk
ZeroChunks == q_pc = "retrieved" /\ q_chunks = <<>>

\* the steps that come after retrieval in the pipeline
LaterSteps == {"generate_answer", "check_policy", "generate_followup_questions"}

\* C13: when retrieval returns zero chunks the request's next step is the
\* response "no information" with confidence_score 0.0, empty citations and
\* chunks_retrieved = 0, made without any call of answer generation, policy
\* scoring or follow-up generation; and whenever one of these has been
\* called in a request, retrieval came first and returned a chunk at least.
C13_NoChunksNoGeneration ==
    /\ [][ZeroChunks =>
            /\ q_pc' = "responded"
            /\ q_response'.status = 200
            /\ q_response'.answer = no_information_answer
            /\ q_response'.confidence_score = 0
            /\ q_response'.citations = <<>>
            /\ q_response'.metadata.chunks_retrieved = 0
            /\ q_invoked' = <<"retrieve">>
            /\ answer_result' = NoAnswer
            /\ report' = NoReport /\ llm_called' = FALSE
            /\ followup_questions' = <<>>]_vars
    /\ [](\A i \in DOMAIN q_invoked :
            q_invoked[i] \in LaterSteps =>
                /\ i > 1 /\ q_invoked[1] = "retrieve"
                /\ Len(q_chunks) >= 1)

\* a request answered "no information" after a retrieval without chunks
C13_Witness ==
    /\ Responded
    /\ store_call.called /\ store_call.n_results >= 1
    /\ q_chunks = <<>>
    /\ q_response.status = 200
    /\ q_response.metadata.chunks_retrieved = 0
    /\ q_invoked = <<"retrieve">>

\* generate_answer has caught a failure of the generation call
GenerationFailed == answer_result # NoAnswer /\ "error" \in DOMAIN answer_result

\* C19 as stated: when answer generation fails in a request that retrieved
\* a chunk at least (and the audit log is written), the response is HTTP
\* 200 with every field filled, its answer carries the error text, and it
\* has confidence_score 0.0 or carries a warning.
C19_GenerationFailureLowestConfidence ==
    (Responded /\ GenerationFailed /\ q_logged # None) =>
        /\ q_response.status = 200
        /\ DOMAIN q_response = {"status", "answer", "citations", "confidence_score",
                                "warnings", "recommendations", "followup_questions",
                                "metadata"}
        /\ \E i \in DOMAIN q_response.answer :
              MatchAt(answer_result.error, q_response.answer, i)
        /\ (q_response.confidence_score = 0 \/ q_response.warnings # <<>>)

(***************************************************************************)
(* What the claims on uploads speak of                                     *)
(***************************************************************************)
TerminalStatuses == {"completed", "failed"}

\* the chunks the service's chunker makes of a file stored under a filename
ChunksOfFile(filename, content) ==
    chunk_document(ingest(filename, content),
                   [chunk_size |-> chunk_size, chunk_overlap |-> chunk_overlap])

\* C16: a job record is created with status 'processing', and a record that
\* shows 'completed' or 'failed' shows the same status ever after, whatever
\* uploads and background tasks follow.
C16_JobStatusLifecycle ==
    [][/\ \A j \in DOMAIN upload_jobs' \ DOMAIN upload_jobs :
             upload_jobs'[j].status = "processing"
       /\ \A j \in DOMAIN upload_jobs :
             /\ j \in DOMAIN upload_jobs'
             /\ upload_jobs[j].status \in TerminalStatuses =>
                   upload_jobs'[j].status = upload_jobs[j].status]_vars

\* C17: any two accepted uploads have different job records, and once the
\* task of an upload has run, the record of that upload shows what that task
\* did with the file of that upload: its status and, if completed, the
\* number of chunks of that file.
C17_UploadsIndependent ==
    /\ \A i, k \in DOMAIN uploads : i # k => uploads[i].job_id # uploads[k].job_id
    /\ \A n \in DOMAIN processed :
          LET p == processed[n]
              u == uploads[p.upload]
          IN  /\ upload_jobs[u.job_id].status = p.job.status
              /\ p.content = u.content
              /\ p.job.status = "completed" =>
                    upload_jobs[u.job_id].chunks_created
                        = Len(ChunksOfFile(u.filename, u.content))

\* C18: when a file has been ingested under a filename ingested before, and
\* no step of the task failed of itself, the job is completed and the entry
\* stored under the id of each chunk of the latest upload holds that chunk.
C18_ReuploadOverwrites ==
    \A n \in DOMAIN processed :
        LET p == processed[n]
            u == uploads[p.upload]
        IN  (/\ n = Len(processed)
             /\ p.failing = "none"
             /\ \E m \in 1..(n - 1) :
                   /\ uploads[processed[m].upload].filename = u.filename
                   /\ processed[m].job.status = "completed") =>
                /\ p.job.status = "completed"
                /\ \A i \in DOMAIN ChunksOfFile(u.filename, p.content) :
                      LET chunk == ChunksOfFile(u.filename, p.content)[i]
                      IN  \E e \in DOMAIN collection :
                             /\ collection[e].id = storage_id(chunk)
                             /\ collection[e].document = chunk.text

\* the last task that ran, if it is one of the four steps that failed
LastFailed ==
    /\ processed # <<>>
    /\ processed[Len(processed)].failing \in {"ingest", "chunk", "embed", "store"}

\* a task has just run
TaskRan == Len(processed') = Len(processed) + 1

\* the job id of the task that ran n-th
JobOf(n) == uploads[processed[n].upload].job_id

\* C20: when parsing, chunking, embedding or storing fails in a background
\* task, the task ends leaving its job record with status 'failed' and the
\* error text recorded; when retrieval raises
\* in a /query request, the request is answered HTTP 500, without answer.
C20_PrimaryFailuresAreExplicit ==
    /\ [][(TaskRan /\ LastFailed') =>
             LET p == processed'[Len(processed')]
             IN  /\ upload_jobs'[uploads[p.upload].job_id].status = "failed"
                 /\ upload_jobs'[uploads[p.upload].job_id].error = error_text(p.failing)]_vars
    /\ [][q_pc = "raised" =>
             /\ q_pc' = "responded"
             /\ q_response'.status = 500
             /\ "answer" \notin DOMAIN q_response'
             /\ answer_result' = NoAnswer]_vars

\* a task that failed while storing left its job failed, and a request whose
\* retrieval raised was answered HTTP 500
C20_Witness ==
    /\ \E n \in DOMAIN processed :
          /\ processed[n].failing = "store"
          /\ upload_jobs[JobOf(n)].status = "failed"
          /\ upload_jobs[JobOf(n)].error = error_text("store")
    /\ Responded
    /\ q_response.status = 500
    /\ q_invoked = <<"retrieve">>

(***************************************************************************)
(* The contradiction mode of check_policy                                  *)
(***************************************************************************)
\* a check_policy call has returned
Checked == p_pc = "done"

\* the keys of the result of the LLM-assisted check
LLMResultKeys == {"has_contradictions", "confidence", "explanation"}

\* C24: check_policy reaches the LLM service exactly when the agent was
\* constructed with an API key and two or more chunks were retrieved; in
\* every other call the contradiction check is the result of the heuristic
\* check of the chunks, and with fewer than two chunks the service is not
\* called.
C24_ContradictionMode ==
    Checked =>
        /\ llm_called <=> (use_llm /\ Len(p_chunks) >= 2)
        /\ llm_called <=> llm_outcome # NoCall
        /\ ~(use_llm /\ Len(p_chunks) >= 2) =>
              report.contradiction_check = check_contradictions_heuristic(p_chunks)
        /\ (llm_called /\ ~llm_outcome.raises /\ ~parse_llm_response(llm_outcome.lines).raised) =>
              DOMAIN report.contradiction_check = LLMResultKeys

\* an agent with an API key checked an answer with one chunk, heuristically
C24_Witness ==
    /\ Checked
    /\ use_llm
    /\ Len(p_chunks) = 1
    /\ ~llm_called
    /\ report.contradiction_check = check_contradictions_heuristic(p_chunks)

\* the service was called and the call, or the parse of its reply, raised
LLMFailed ==
    /\ Checked
    /\ llm_called
    /\ \/ llm_outcome.raises
       \/ parse_llm_response(llm_outcome.lines).raised

\* the keys of the dictionary check_policy returns
ReportKeys ==
    {"ambiguity_check", "modal_verb_analysis", "legal_advice_check", "confidence_score",
     "warnings", "recommendations", "contradiction_check"}

\* C25: when the service call or the parse of its reply raises, check_policy
\* still returns its report; the contradiction check in it is the result of
\* the heuristic check of the same chunks, so it reports no contradiction,
\* the confidence score is the one computed from the heuristic result, no
\* contradiction warning is given, and the checks of the answer are there.
C25_LLMFailureFallsBackToHeuristic ==
    LLMFailed =>
        /\ DOMAIN report = ReportKeys
        /\ report.contradiction_check = check_contradictions_heuristic(p_chunks)
        /\ ~report.contradiction_check.has_contradictions
        /\ report.confidence_score =
              calculate_confidence(with_contradiction_check(
                  initial_checks(p_answer, p_query),
                  check_contradictions_heuristic(p_chunks)))
        /\ \A i \in DOMAIN report.warnings : report.warnings[i] # W_contradiction
        /\ report.ambiguity_check = check_ambiguity(p_answer)
        /\ report.modal_verb_analysis = analyze_modal_verbs(p_answer)
        /\ report.legal_advice_check = check_legal_advice(p_answer, p_query)

\* the service replied YES with a confidence that is no number, and the
\* report holds the heuristic result
C25_Witness ==
    /\ LLMFailed
    /\ ~llm_outcome.raises
    /\ Contains(<<"Y","E","S">>, llm_outcome.lines[1])
    /\ report.contradiction_check = check_contradictions_heuristic(p_chunks)
    /\ report.contradiction_check.has_contradictions = FALSE

\* the lines of the reply that hold the word CONFIDENCE
ConfidenceLines ==
    SelectSeq(llm_outcome.lines,
              LAMBDA line : Contains(<<"C","O","N","F","I","D","E","N","C","E">>, line))

\* the service replied, without a confidence line or with one whose value
\* is no number
ConfidenceNotParsed ==
    /\ Checked
    /\ llm_called
    /\ ~llm_outcome.raises
    /\ \/ ConfidenceLines = <<>>
       \/ Len(split(ConfidenceLines[1], ":")) < 2
       \/ ~float(split(ConfidenceLines[1], ":")[2]).ok

\* C26: when the service replies and the reply has no CONFIDENCE line, or
\* has one whose value is no number, check_policy returns and the confidence
\* of the contradiction check is the default 0.7.
C26_UnparsedConfidenceIsDefault ==
    ConfidenceNotParsed => report.contradiction_check.confidence = 70

(***************************************************************************)
(* get_chunk_statistics                                                    *)
(***************************************************************************)
RECURSIVE Total(_, _, _)
\* the sum of field key over the first n chunks
Total(chunk_list, key, n) ==
    IF n = 0 THEN 0 ELSE Total(chunk_list, key, n - 1) + chunk_list[n][key]

\* C23: get_chunk_statistics of no chunks is the empty dictionary; of one or
\* more chunks, total_chunks is their number, total_tokens and total_chars
\* are the sums of their token_count and char_count, and each average times
\* total_chunks is the corresponding total.
C23_ChunkStatistics ==
    statistics # None =>
        LET chunk_list == statistics[1].chunks
            result == statistics[1].result
            n == Len(chunk_list)
        IN  IF n = 0 THEN DOMAIN result = {}
            ELSE /\ DOMAIN result = {"total_chunks", "total_tokens", "total_chars",
                                     "avg_tokens_per_chunk", "avg_chars_per_chunk"}
                 /\ result.total_chunks = n
                 /\ result.total_tokens = Total(chunk_list, "token_count", n)
                 /\ result.total_chars = Total(chunk_list, "char_count", n)
                 /\ result.avg_tokens_per_chunk.den > 0
                 /\ result.avg_chars_per_chunk.den > 0
                 /\ result.avg_tokens_per_chunk.num * n
                       = result.total_tokens * result.avg_tokens_per_chunk.den
                 /\ result.avg_chars_per_chunk.num * n
                       = result.total_chars * result.avg_chars_per_chunk.den

\* the statistics of three chunks of two pages, whose average is no integer
C23_Witness ==
    /\ statistics # None
    /\ Len(statistics[1].chunks) = 3
    /\ statistics[1].chunks[3].page_number = 2
    /\ statistics[1].result.total_chars = 5
    /\ statistics[1].result.avg_chars_per_chunk = [num |-> 5, den |-> 3]


(***************************************************************************)
(* Uploads: progress, rejection, what a job leaves in the store            *)
(***************************************************************************)
\* the task of the u-th accepted upload has run
TaskOfRan(u) == \E n \in DOMAIN processed : processed[n].upload = u

\* C21: every accepted upload is followed by a state in which its task has
\* run and the record of its job shows 'completed' or 'failed', provided the
\* event loop runs every background task.
C21_EveryUploadLeavesProcessing ==
    \A u \in 1..MaxUploads :
        (Len(uploads) >= u) ~>
            (/\ TaskOfRan(u)
             /\ upload_jobs[uploads[u].job_id].status \in TerminalStatuses)

\* every upload the model allows was accepted, and each left 'processing'
C21_Witness ==
    /\ Len(uploads) = MaxUploads
    /\ \A u \in 1..MaxUploads :
          /\ TaskOfRan(u)
          /\ upload_jobs[uploads[u].job_id].status \in TerminalStatuses
    /\ \E u \in 1..MaxUploads : upload_jobs[uploads[u].job_id].status = "completed"
    /\ \E u \in 1..MaxUploads : upload_jobs[uploads[u].job_id].status = "failed"

\* the upload names whose extension is no document type
Unrecognised == {"notes.txt"}

\* the last /upload request was of a file that is no document
RejectedUpload == u_request # None /\ u_request[1] \in Unrecognised

\* nothing of the service holds a trace of a file that is no document
NoTraceOfUnrecognised ==
    /\ \A f \in Unrecognised : upload_dir[f] = None
    /\ \A j \in DOMAIN upload_jobs : upload_jobs[j].filename \notin Unrecognised
    /\ \A t \in DOMAIN background_tasks : background_tasks[t].file_path \notin Unrecognised
    /\ \A u \in DOMAIN uploads : uploads[u].filename \notin Unrecognised
    /\ \A p \in DOMAIN processed : uploads[processed[p].upload].filename \notin Unrecognised

\* C22: an upload whose extension is no document type is answered HTTP 400
\* and its step saves no file, adds no job record, schedules no task and
\* chunks nothing, so that no file, job, task or processing of such a name
\* ever exists; IngestionAgent.process_document raises ValueError for it.
C22_UnsupportedExtensionRejected ==
    /\ [](RejectedUpload => u_response = Some(unsupported_file_type))
    /\ []NoTraceOfUnrecognised
    /\ [][(u_request' # None /\ u_request'[1] \in Unrecognised /\ u_request' # u_request)
             => UNCHANGED <<upload_dir, upload_jobs, background_tasks, uploads,
                            processed, collection, deleted>>]_vars
    /\ [](ingested # None /\ ingested[1].file_path \in Unrecognised
             => /\ "raises" \in DOMAIN ingested[1].result
                /\ ingested[1].result.raises = "ValueError"
                /\ "pages" \notin DOMAIN ingested[1].result)

\* a text file is rejected after a document was accepted and processed, and
\* the IngestionAgent has raised for the text file
C22_Witness ==
    /\ RejectedUpload
    /\ u_response = Some(unsupported_file_type)
    /\ Len(processed) >= 1
    /\ ingested # None /\ ingested[1].file_path \in Unrecognised
    /\ "raises" \in DOMAIN ingested[1].result

\* a background task has run in this step and left its job 'failed'
TaskFailed ==
    /\ Len(processed') = Len(processed) + 1
    /\ processed'[Len(processed')].job.status = "failed"

\* C27: a background task that leaves its job 'failed' leaves no chunk of
\* its document in the vector store: the collection is as it was before
\* the task ran.
C27_FailedJobStoresNothing ==
    [][TaskFailed => collection' = collection]_vars

\* a background task has run in this step and left its job 'completed'
TaskCompleted ==
    /\ Len(processed') = Len(processed) + 1
    /\ processed'[Len(processed')].job.status = "completed"

\* the chunks chunk_document emits for the file the task of this step read
EmittedChunks ==
    chunk_document(ingest(uploads[processed'[Len(processed')].upload].filename,
                          processed'[Len(processed')].content),
                   [chunk_size |-> chunk_size, chunk_overlap |-> chunk_overlap])

\* C28 (as claimed; the code breaks it): when a background task leaves its
\* job 'completed', every chunk that chunk_document emitted for the document
\* is in the vector store under its id, with the chunk's text and the
\* embedding of that text, and chunks_created is the number of chunks
\* emitted.
C28_CompletedAfterAllChunksStored ==
    [][TaskCompleted =>
          /\ processed'[Len(processed')].job.chunks_created = Len(EmittedChunks)
          /\ \A i \in DOMAIN EmittedChunks :
                \E e \in DOMAIN collection' :
                   /\ collection'[e].id = storage_id(EmittedChunks[i])
                   /\ collection'[e].document = EmittedChunks[i].text
                   /\ collection'[e].embedding = encode(EmittedChunks[i].text)]_vars

\* C29: once the deletion of a document id has returned successfully, and
\* until an upload of its filename is requested, no entry of the vector
\* store has that document id and list_documents does not list it.
C29_DeletedStaysDeleted ==
    \A d \in deleted :
        /\ \A e \in DOMAIN collection : collection[e].metadata.document_id # d
        /\ \A l \in DOMAIN list_documents(collection, <<>>) :
              list_documents(collection, <<>>)[l].document_id # d

====
